---- MODULE Spec2Model ----
(***************************************************************************)
(* A model of the GraphQL fragment inliner of graphql-compiler.            *)
(*                                                                         *)
(* The repository holds two versions of lib/inline-relay-query.ts: the one *)
(* with the argument canonicalizer (normalizeValueNode, createArgumentKey, *)
(* deduplicateSelections, inlineFragmentSpreads) and the earlier one       *)
(* (mergeSelections, inlineFragments).  Both are modelled, on the same     *)
(* parsed documents.                                                       *)
(*                                                                         *)
(* An AST node is a record with the fields of the graphql-js nodes the     *)
(* code reads: kind, name, alias ("" when absent), arguments,              *)
(* typeCondition ("" when absent), hasSel/selections (the optional         *)
(* selectionSet) and loc (the source position the parser records).         *)
(***************************************************************************)
EXTENDS Integers, Naturals, Sequences, FiniteSets, TLC

VARIABLES text, result, legacy, again,
          pieces, input, parsed,
          entries, files,
          tabs, activeTabId, storage, effectPending, nanoidCounter, session, lastClose,
          panel, doc, timers, compilationTimer, edits, compiled, panelProps

inlinerVars == <<text, result, legacy, again>>

splitterVars == <<pieces, input, parsed>>

grouperVars == <<entries, files>>

tabVars == <<tabs, activeTabId, storage, effectPending, nanoidCounter, session, lastClose>>

editorVars == <<panel, doc, timers, compilationTimer, edits, compiled, panelProps>>

vars == <<inlinerVars, splitterVars, grouperVars, tabVars, editorVars>>

(***************************************************************************)
(* Generic sequence helpers.                                               *)
(***************************************************************************)
RECURSIVE Flatten(_)
Flatten(ss) == IF ss = <<>> THEN <<>> ELSE Head(ss) \o Flatten(Tail(ss))

RECURSIVE Join(_, _)
Join(strs, sep) ==
    IF strs = <<>> THEN ""
    ELSE IF Len(strs) = 1 THEN strs[1]
    ELSE strs[1] \o sep \o Join(Tail(strs), sep)

(***************************************************************************)
(* The order of the own properties of a JavaScript object: the keys that   *)
(* are array indices in ascending numeric order, then the other keys in    *)
(* the order of their creation.  An array index is the canonical decimal   *)
(* text of an integer from 0 to 2^32 - 2.  A key is a string or a sequence *)
(* of characters.                                                          *)
(***************************************************************************)
\* a < b, of two canonical decimal texts: the shorter is the smaller, and of
\* two of the same length the one with the smaller first differing digit.
RECURSIVE ArrayIndexLess(_, _)
ArrayIndexLess(a, b) ==
    LET DigitOf(c) == CHOOSE d \in 0..9 : ToString(d) = c
    IN IF Len(a) # Len(b) THEN Len(a) < Len(b)
       ELSE IF Len(a) = 0 THEN FALSE
       ELSE IF Head(a) # Head(b) THEN DigitOf(Head(a)) < DigitOf(Head(b))
       ELSE ArrayIndexLess(Tail(a), Tail(b))

IsArrayIndex(key) ==
    LET RECURSIVE IsDigits(_)
        IsDigits(s) ==
            Len(s) = 0 \/ ((\E d \in 0..9 : ToString(d) = Head(s)) /\ IsDigits(Tail(s)))
    IN /\ Len(key) > 0
       /\ IsDigits(key)
       /\ Len(key) = 1 \/ Head(key) # "0"
       /\ ~ArrayIndexLess("4294967294", key)

\* The number of the properties that stay before a property created with
\* this key, keys being the keys the object has, in their order.
OwnKeyPlace(keys, key) ==
    IF IsArrayIndex(key)
    THEN Cardinality({i \in 1..Len(keys) :
                         IsArrayIndex(keys[i]) /\ ArrayIndexLess(keys[i], key)})
    ELSE Len(keys)

\* The properties after the creation of one at its place.
CreateProperty(props, place, prop) ==
    [i \in 1..(Len(props) + 1) |->
        IF i <= place THEN props[i] ELSE IF i = place + 1 THEN prop ELSE props[i - 1]]

(***************************************************************************)
(* AST constructors: what graphql-js parse() produces for each construct.  *)
(***************************************************************************)
Node(kind, name, alias, arguments, typeCondition, hasSel, selections) ==
    [kind |-> kind, name |-> name, alias |-> alias, arguments |-> arguments,
     typeCondition |-> typeCondition, hasSel |-> hasSel,
     selections |-> selections, loc |-> ""]

Field(name, arguments, selections) ==
    Node("Field", name, "", arguments, "", selections # <<>>, selections)

AliasedField(alias, name, arguments, selections) ==
    Node("Field", name, alias, arguments, "", selections # <<>>, selections)

InlineFragment(typeCondition, selections) ==
    Node("InlineFragment", "", "", <<>>, typeCondition, TRUE, selections)

FragmentSpread(name) == Node("FragmentSpread", name, "", <<>>, "", FALSE, <<>>)

OperationDefinition(name, selections) ==
    Node("OperationDefinition", name, "", <<>>, "", TRUE, selections)

FragmentDefinition(name, typeCondition, selections) ==
    Node("FragmentDefinition", name, "", <<>>, typeCondition, TRUE, selections)

\* Value nodes: kind, value (the raw text of a scalar, the name of a
\* variable) and fields (the fields of an object, the elements of a list,
\* the latter with an empty name).
ValueNode(kind, value, fields) == [kind |-> kind, value |-> value, fields |-> fields]
IntValue(v) == ValueNode("IntValue", v, <<>>)
StringValue(v) == ValueNode("StringValue", v, <<>>)
EnumValue(v) == ValueNode("EnumValue", v, <<>>)
BooleanValue(v) == ValueNode("BooleanValue", v, <<>>)
Variable(n) == ValueNode("Variable", n, <<>>)
NullValue == ValueNode("NullValue", "", <<>>)
ObjectField(n, v) == [name |-> n, value |-> v]
ObjectValue(fields) == ValueNode("ObjectValue", "", fields)
ListValue(values) ==
    ValueNode("ListValue", "", [i \in 1..Len(values) |-> ObjectField("", values[i])])
Argument(n, v) == [name |-> n, value |-> v, loc |-> ""]

(***************************************************************************)
(* Type guards.                                                            *)
(***************************************************************************)
isFieldNode(node) == node.kind = "Field"

isInlineFragmentNode(node) == node.kind = "InlineFragment"

(***************************************************************************)
(* normalizeValueNode: the plain JavaScript value of a value node.  A      *)
(* JavaScript value is [t, s, props]: t its type, s the text of a string   *)
(* or boolean, props the own properties of an object in creation order (or *)
(* the elements of an array, with empty keys), and proto what a lookup of  *)
(* __proto__ finds on its prototype chain: the accessor of                 *)
(* Object.prototype ("setter"), nothing ("none", after the prototype was   *)
(* set to null) or an ordinary property of a prototype ("data").           *)
(***************************************************************************)
JsValue(t, s, props) == [t |-> t, s |-> s, props |-> props, proto |-> "setter"]

\* What a lookup of __proto__ finds on the prototype chain of a value used
\* as a prototype: its own property of that name, when it has one
\* ("data"), and what its own chain gives otherwise.
ProtoLookup(v) ==
    IF v.t = "object" /\ \E i \in 1..Len(v.props) : v.props[i].k = "__proto__"
    THEN "data"
    ELSE v.proto

\* obj[k] = v on a plain object: a new key is created at its place in the
\* property order, an existing key keeps its place and takes the new value.  For
\* the key __proto__, when the object has no own property of that name and
\* inherits the setter of Object.prototype, the setter is called: an
\* object becomes the prototype, null removes the prototype, any other
\* value is ignored, and no own property is created.
ObjectAssign(obj, k, v) ==
    IF \E i \in 1..Len(obj.props) : obj.props[i].k = k
    THEN [obj EXCEPT !.props =
             [i \in 1..Len(obj.props) |->
                 IF obj.props[i].k = k THEN [k |-> k, v |-> v] ELSE obj.props[i]]]
    ELSE IF k = "__proto__" /\ obj.proto = "setter"
    THEN IF v.t \in {"object", "array"} THEN [obj EXCEPT !.proto = ProtoLookup(v)]
         ELSE IF v.t = "null" THEN [obj EXCEPT !.proto = "none"]
         ELSE obj
    ELSE [obj EXCEPT !.props =
             CreateProperty(obj.props,
                            OwnKeyPlace([i \in 1..Len(obj.props) |-> obj.props[i].k], k),
                            [k |-> k, v |-> v])]

RECURSIVE normalizeValueNode(_)
RECURSIVE NormalizeObjectFields(_, _)
NormalizeObjectFields(fields, obj) ==
    IF fields = <<>> THEN obj
    ELSE NormalizeObjectFields(Tail(fields),
            ObjectAssign(obj, Head(fields).name, normalizeValueNode(Head(fields).value)))

normalizeValueNode(value) ==
    CASE value.kind = "ObjectValue" ->
            NormalizeObjectFields(value.fields, JsValue("object", "", <<>>))
      [] value.kind = "ListValue" ->
            JsValue("array", "",
                [i \in 1..Len(value.fields) |->
                    [k |-> "", v |-> normalizeValueNode(value.fields[i].value)]])
      [] value.kind = "Variable" ->
            JsValue("object", "",
                << [k |-> "type", v |-> JsValue("string", "variable", <<>>)],
                   [k |-> "name", v |-> JsValue("string", value.value, <<>>)] >>)
      [] value.kind = "BooleanValue" -> JsValue("boolean", value.value, <<>>)
      [] value.kind \in {"StringValue", "IntValue", "FloatValue", "EnumValue"} ->
            JsValue("string", value.value, <<>>)
      [] value.kind = "NullValue" -> JsValue("null", "", <<>>)
      [] OTHER -> JsValue("null", "", <<>>)

\* JSON.stringify of a JavaScript value: object properties in creation order
\* (the strings of the model hold no character that JSON escapes).
RECURSIVE JSONstringify(_)
JSONstringify(v) ==
    CASE v.t = "object" ->
            "{" \o Join([i \in 1..Len(v.props) |->
                    "\"" \o v.props[i].k \o "\":" \o JSONstringify(v.props[i].v)], ",") \o "}"
      [] v.t = "array" ->
            "[" \o Join([i \in 1..Len(v.props) |-> JSONstringify(v.props[i].v)], ",") \o "]"
      [] v.t = "string" -> "\"" \o v.s \o "\""
      [] v.t = "boolean" -> v.s
      [] OTHER -> "null"

(***************************************************************************)
(* String.prototype.localeCompare on the names of the model: the collation *)
(* order of the names the model's argument lists use (punctuation, then    *)
(* letters, a lower-case letter before its upper-case form).               *)
(***************************************************************************)
CollationOrder == <<"_eq", "a", "A", "b", "is_active", "w", "where">>

CollationRank(s) == CHOOSE i \in 1..Len(CollationOrder) : CollationOrder[i] = s

localeCompareLess(a, b) == CollationRank(a) < CollationRank(b)

\* Array.prototype.sort with (a, b) => a.name.localeCompare(b.name): stable.
RECURSIVE InsertByName(_, _)
InsertByName(sorted, e) ==
    IF sorted = <<>> THEN <<e>>
    ELSE IF localeCompareLess(e.name, Head(sorted).name)
         THEN <<e>> \o sorted
         ELSE <<Head(sorted)>> \o InsertByName(Tail(sorted), e)

\* An argument list left in source order.
SortByNameUnsorted(s) == s

RECURSIVE SortByName(_)
SortByName(s) ==
    IF s = <<>> THEN <<>>
    ELSE InsertByName(SortByName(SubSeq(s, 1, Len(s) - 1)), s[Len(s)])

(***************************************************************************)
(* createArgumentKey, createFieldKey, createInlineFragmentKey.             *)
(***************************************************************************)
createArgumentKey(args) ==
    IF args = <<>> THEN ""
    ELSE LET normalizedArgs ==
                 [i \in 1..Len(args) |->
                     [name |-> args[i].name, value |-> normalizeValueNode(args[i].value)]]
             sortedArgs == SortByName(normalizedArgs)
         IN "[" \o Join([i \in 1..Len(sortedArgs) |->
                    "{\"name\":\"" \o sortedArgs[i].name \o "\",\"value\":"
                        \o JSONstringify(sortedArgs[i].value) \o "}"], ",") \o "]"

createFieldKey(field) ==
    (IF field.alias # "" THEN field.alias ELSE field.name)
        \o createArgumentKey(field.arguments)

createInlineFragmentKey(fragment) == "inline:" \o fragment.typeCondition

(***************************************************************************)
(* A JavaScript Map as the sequence of its entries in insertion order.     *)
(***************************************************************************)
MapHas(m, key) == \E i \in 1..Len(m) : m[i].key = key

MapGet(m, key) == m[CHOOSE i \in 1..Len(m) : m[i].key = key].value

\* A set() that moves an existing key to the end of the insertion order.
MapSetMovingToEnd(m, key, value) ==
    LET Others(e) == e.key # key
    IN Append(SelectSeq(m, Others), [key |-> key, value |-> value])

MapSet(m, key, value) ==
    IF MapHas(m, key)
    THEN [i \in 1..Len(m) |-> IF m[i].key = key THEN [key |-> key, value |-> value] ELSE m[i]]
    ELSE Append(m, [key |-> key, value |-> value])

MapValues(m) == [i \in 1..Len(m) |-> m[i].value]

(***************************************************************************)
(* mergeSelectionSets / deduplicateSelections.                             *)
(***************************************************************************)
RECURSIVE deduplicateSelections(_)
RECURSIVE DeduplicateLoop(_, _)

mergeSelectionSets(set1, set2) == deduplicateSelections(set1 \o set2)

\* A merge that concatenates the two nested lists without deduplicating.
MergedFieldConcatenating(existing, selection) ==
    [existing EXCEPT !.hasSel = TRUE,
                     !.selections = existing.selections \o selection.selections]

\* A merge that spreads the later field instead of the existing one.
MergedFieldFromLater(existing, selection) ==
    IF existing.hasSel /\ selection.hasSel
    THEN [selection EXCEPT !.selections =
              mergeSelectionSets(existing.selections, selection.selections)]
    ELSE IF existing.hasSel
    THEN [selection EXCEPT !.hasSel = TRUE, !.selections = existing.selections]
    ELSE selection

\* The replacement of an existing field entry by a later field of its key.
MergedField(existing, selection) ==
    IF existing.hasSel /\ selection.hasSel
    THEN [existing EXCEPT !.selections =
              mergeSelectionSets(existing.selections, selection.selections)]
    ELSE IF existing.hasSel THEN existing
    ELSE [existing EXCEPT !.hasSel = TRUE, !.selections = selection.selections]

MergedInlineFragment(existing, selection) ==
    [existing EXCEPT !.hasSel = TRUE,
                     !.selections = mergeSelectionSets(existing.selections, selection.selections)]

\* Key of a selection that is neither a field nor an inline fragment.
OtherKey(selection) ==
    "other:" \o selection.kind \o ":" \o selection.name \o "@" \o selection.loc

\* One iteration of the loop over the selections.
DeduplicateStep(selectionMap, selection) ==
    IF isFieldNode(selection)
    THEN LET key == createFieldKey(selection)
         IN IF MapHas(selectionMap, key)
            THEN IF selection.hasSel \/ MapGet(selectionMap, key).hasSel
                 THEN MapSet(selectionMap, key,
                             MergedField(MapGet(selectionMap, key), selection))
                 ELSE selectionMap
            ELSE MapSet(selectionMap, key, selection)
    ELSE IF isInlineFragmentNode(selection)
    THEN LET key == createInlineFragmentKey(selection)
         IN IF MapHas(selectionMap, key)
            THEN MapSet(selectionMap, key,
                        MergedInlineFragment(MapGet(selectionMap, key), selection))
            ELSE MapSet(selectionMap, key, selection)
    ELSE MapSet(selectionMap, OtherKey(selection), selection)

DeduplicateLoop(selections, selectionMap) ==
    IF selections = <<>> THEN selectionMap
    ELSE DeduplicateLoop(Tail(selections), DeduplicateStep(selectionMap, Head(selections)))

\* A deduplication that also drops, from the nested selections of an entry,
\* the fields whose key an entry of its own level has.
deduplicateSelectionsAcrossLevels(selections) ==
    LET merged == MapValues(DeduplicateLoop(selections, <<>>))
        keys == {createFieldKey(merged[i]) : i \in {j \in 1..Len(merged) : isFieldNode(merged[j])}}
        NotAbove(e) == ~(isFieldNode(e) /\ createFieldKey(e) \in keys)
    IN [i \in 1..Len(merged) |->
           [merged[i] EXCEPT !.selections = SelectSeq(@, NotAbove)]]

deduplicateSelections(selections) == MapValues(DeduplicateLoop(selections, <<>>))

(***************************************************************************)
(* buildFragmentMap and the lookup fragmentMap[fragmentName].  The map is  *)
(* a plain object ({}): an assignment creates or overwrites an own         *)
(* property, a lookup falls back to the properties every plain object      *)
(* inherits from Object.prototype.  (No document of the model defines a    *)
(* fragment named __proto__, whose assignment would replace the prototype.)*)
(***************************************************************************)
ObjectPrototypeProperties ==
    {"constructor", "toString", "toLocaleString", "valueOf", "hasOwnProperty",
     "isPrototypeOf", "propertyIsEnumerable", "__proto__",
     "__defineGetter__", "__defineSetter__", "__lookupGetter__", "__lookupSetter__"}

Undefined == Node("undefined", "", "", <<>>, "", FALSE, <<>>)

\* A member of Object.prototype: truthy, without a selectionSet property.
InheritedMember(name) == Node("inherited", name, "", <<>>, "", FALSE, <<>>)

\* An assignment that leaves an existing own property as it is.
PropertySetOnce(object, k, v) ==
    [n \in (DOMAIN object) \cup {k} |-> IF n \in DOMAIN object THEN object[n] ELSE v]

PropertySet(object, k, v) ==
    [n \in (DOMAIN object) \cup {k} |-> IF n = k THEN v ELSE object[n]]

PropertyGet(object, k) ==
    IF k \in DOMAIN object THEN object[k]
    ELSE IF k \in ObjectPrototypeProperties THEN InheritedMember(k)
    ELSE Undefined

EmptyObject == [n \in {} |-> Undefined]

RECURSIVE BuildFragmentMapLoop(_, _)
BuildFragmentMapLoop(definitions, fragmentMap) ==
    IF definitions = <<>> THEN fragmentMap
    ELSE BuildFragmentMapLoop(Tail(definitions),
            IF Head(definitions).kind = "FragmentDefinition"
            THEN PropertySet(fragmentMap, Head(definitions).name, Head(definitions))
            ELSE fragmentMap)

buildFragmentMap(document) == BuildFragmentMapLoop(document, EmptyObject)

(***************************************************************************)
(* inlineFragmentSpreads.  A call returns a node or throws: the outcome is *)
(* [error, node], error = "" for a return.  depth is the number of active  *)
(* calls of the function: the engine throws a RangeError when the call     *)
(* stack is exhausted, which StackLimit stands for.                        *)
(***************************************************************************)
StackLimit == 8

Returned(node) == [error |-> "", node |-> node]

Thrown(message) == [error |-> message, node |-> Undefined]

FragmentNotFound(fragmentName) == "Fragment \"" \o fragmentName \o "\" not found"

RangeError == "Maximum call stack size exceeded"

RECURSIVE inlineFragmentSpreads(_, _, _)
RECURSIVE InlineLoop(_, _, _)

\* A loop body that recurses into fields only and keeps inline fragments
\* as they are.
InlineSelectionFieldsOnly(selection, fragmentMap, depth) ==
    IF selection.kind = "FragmentSpread"
    THEN LET fragment == PropertyGet(fragmentMap, selection.name)
         IN IF fragment.kind = "undefined"
            THEN Thrown(FragmentNotFound(selection.name))
            ELSE LET inlinedFragment == inlineFragmentSpreads(fragment, fragmentMap, depth + 1)
                 IN IF inlinedFragment.error # "" THEN inlinedFragment
                    ELSE Returned([Undefined EXCEPT !.selections = inlinedFragment.node.selections])
    ELSE IF isFieldNode(selection)
    THEN LET inlined == inlineFragmentSpreads(selection, fragmentMap, depth + 1)
         IN IF inlined.error # "" THEN inlined
            ELSE Returned([Undefined EXCEPT !.selections = <<inlined.node>>])
    ELSE Returned([Undefined EXCEPT !.selections = <<selection>>])

\* What one selection of the loop contributes to newSelections (in
\* node.selections), or the error it throws.
InlineSelection(selection, fragmentMap, depth) ==
    IF selection.kind = "FragmentSpread"
    THEN LET fragment == PropertyGet(fragmentMap, selection.name)
         IN IF fragment.kind = "undefined"
            THEN Thrown(FragmentNotFound(selection.name))
            ELSE LET inlinedFragment == inlineFragmentSpreads(fragment, fragmentMap, depth + 1)
                 IN IF inlinedFragment.error # "" THEN inlinedFragment
                    ELSE IF inlinedFragment.node.hasSel
                    THEN Returned([Undefined EXCEPT !.selections = inlinedFragment.node.selections])
                    ELSE Returned([Undefined EXCEPT !.selections = <<>>])
    ELSE IF isFieldNode(selection) \/ isInlineFragmentNode(selection)
    THEN LET inlined == inlineFragmentSpreads(selection, fragmentMap, depth + 1)
         IN IF inlined.error # "" THEN inlined
            ELSE Returned([Undefined EXCEPT !.selections = <<inlined.node>>])
    ELSE Returned([Undefined EXCEPT !.selections = <<selection>>])

InlineLoop(selections, fragmentMap, depth) ==
    IF selections = <<>> THEN Returned([Undefined EXCEPT !.selections = <<>>])
    ELSE LET first == InlineSelection(Head(selections), fragmentMap, depth)
         IN IF first.error # "" THEN first
            ELSE LET rest == InlineLoop(Tail(selections), fragmentMap, depth)
                 IN IF rest.error # "" THEN rest
                    ELSE Returned([Undefined EXCEPT
                            !.selections = first.node.selections \o rest.node.selections])

inlineFragmentSpreads(node, fragmentMap, depth) ==
    IF depth > StackLimit THEN Thrown(RangeError)
    ELSE IF ~node.hasSel THEN Returned(node)
    ELSE LET newSelections == InlineLoop(node.selections, fragmentMap, depth)
         IN IF newSelections.error # "" THEN newSelections
            ELSE Returned([node EXCEPT
                    !.selections = deduplicateSelections(newSelections.node.selections)])

(***************************************************************************)
(* inlineFragmentsInDocument: the operations of the document, inlined in   *)
(* document order; the first throw ends the call.                          *)
(***************************************************************************)
Success(definitions) == [status |-> "ok", message |-> "", definitions |-> definitions]

Failure(message) == [status |-> "error", message |-> message, definitions |-> <<>>]

NotCalled == [status |-> "none", message |-> "", definitions |-> <<>>]

IsOperation(def) == def.kind = "OperationDefinition"

RECURSIVE MapInline(_, _)
\* A map that ends at the first throw and returns the operations inlined
\* before it.
MapInlineKeepingDone(definitions, fragmentMap) ==
    IF definitions = <<>> THEN Success(<<>>)
    ELSE LET first == inlineFragmentSpreads(Head(definitions), fragmentMap, 1)
         IN IF first.error # "" THEN Success(<<>>)
            ELSE LET rest == MapInline(Tail(definitions), fragmentMap)
                 IN Success(<<first.node>> \o rest.definitions)

MapInline(definitions, fragmentMap) ==
    IF definitions = <<>> THEN Success(<<>>)
    ELSE LET first == inlineFragmentSpreads(Head(definitions), fragmentMap, 1)
         IN IF first.error # "" THEN Failure(first.error)
            ELSE LET rest == MapInline(Tail(definitions), fragmentMap)
                 IN IF rest.status # "ok" THEN rest
                    ELSE Success(<<first.node>> \o rest.definitions)

inlineFragmentsInDocument(document) ==
    MapInline(SelectSeq(document, IsOperation), buildFragmentMap(document))

(***************************************************************************)
(* parse and print of graphql-js, as far as the inliner depends on them:   *)
(* parse records a source position (loc) in every node, distinct for       *)
(* distinct occurrences; print renders a document without positions.  A    *)
(* query text is modelled by its position-free syntax tree.                *)
(***************************************************************************)
RECURSIVE ParseNode(_, _)
ParseNode(node, loc) ==
    [node EXCEPT
        !.loc = loc,
        !.arguments = [i \in 1..Len(node.arguments) |->
                          [node.arguments[i] EXCEPT !.loc = loc \o "(" \o ToString(i)]],
        !.selections = [i \in 1..Len(node.selections) |->
                           ParseNode(node.selections[i], loc \o "." \o ToString(i))]]

parse(queryText) == [i \in 1..Len(queryText) |-> ParseNode(queryText[i], ToString(i))]

RECURSIVE PrintNode(_)
PrintNode(node) ==
    [node EXCEPT
        !.loc = "",
        !.arguments = [i \in 1..Len(node.arguments) |-> [node.arguments[i] EXCEPT !.loc = ""]],
        !.selections = [i \in 1..Len(node.selections) |-> PrintNode(node.selections[i])]]

print(document) == [i \in 1..Len(document) |-> PrintNode(document[i])]

\* inlineRelayQueryFromString: parse, inline, print.
inlineRelayQueryFromString(queryText) ==
    LET inlinedAST == inlineFragmentsInDocument(parse(queryText))
    IN IF inlinedAST.status = "ok" THEN Success(print(inlinedAST.definitions))
       ELSE inlinedAST

(***************************************************************************)
(* The earlier version of the inliner: mergeSelections keys a field by     *)
(* alias + JSON.stringify(selection.arguments || []), the serialization of *)
(* the argument nodes themselves (kind, name, value and loc, in source     *)
(* order), and keeps a merged array beside the seen map.                   *)
(***************************************************************************)
RECURSIVE ValueNodeJSON(_)
ValueNodeJSON(value) ==
    "{" \o value.kind \o ":" \o value.value \o ":"
        \o Join([i \in 1..Len(value.fields) |->
                    value.fields[i].name \o "=" \o ValueNodeJSON(value.fields[i].value)], ",")
        \o "}"

ArgumentsJSON(arguments) ==
    "[" \o Join([i \in 1..Len(arguments) |->
                    arguments[i].name \o "=" \o ValueNodeJSON(arguments[i].value)
                        \o "@" \o arguments[i].loc], ",") \o "]"

LegacyAlias(selection) == IF selection.alias # "" THEN selection.alias ELSE selection.name

LegacyFieldKey(selection) == LegacyAlias(selection) \o ArgumentsJSON(selection.arguments)

\* merged.findIndex(...) followed by merged[index] = newNode when found;
\* matching: the indices of merged that satisfy the predicate of findIndex.
ReplaceFirst(merged, matching, newNode) ==
    IF matching # {}
    THEN LET index == CHOOSE i \in matching : \A j \in matching : i <= j
         IN [merged EXCEPT ![index] = newNode]
    ELSE merged

RECURSIVE mergeSelections(_)
RECURSIVE MergeSelectionsLoop(_, _)

LegacyMergeSelectionSets(selSet1, selSet2) == mergeSelections(selSet1 \o selSet2)

MergeSelectionsStep(st, selection) ==
    IF selection.kind = "Field"
    THEN LET alias == LegacyAlias(selection)
             key == LegacyFieldKey(selection)
             sameAlias == {i \in 1..Len(st.merged) :
                              st.merged[i].kind = "Field" /\ LegacyAlias(st.merged[i]) = alias}
         IN IF MapHas(st.seen, key)
            THEN IF selection.hasSel
                 THEN LET existing == MapGet(st.seen, key)
                          newField ==
                              [existing EXCEPT
                                  !.hasSel = TRUE,
                                  !.selections =
                                      IF existing.hasSel
                                      THEN LegacyMergeSelectionSets(existing.selections,
                                                                    selection.selections)
                                      ELSE selection.selections]
                      IN [seen |-> MapSet(st.seen, key, newField),
                          merged |-> ReplaceFirst(st.merged, sameAlias, newField)]
                 ELSE st
            ELSE [seen |-> MapSet(st.seen, key, selection),
                  merged |-> Append(st.merged, selection)]
    ELSE IF selection.kind = "InlineFragment"
    THEN LET typeName == selection.typeCondition
             key == "inline:" \o typeName
             sameType == {i \in 1..Len(st.merged) :
                             /\ st.merged[i].kind = "InlineFragment"
                             /\ st.merged[i].typeCondition = typeName}
         IN IF MapHas(st.seen, key)
            THEN LET existing == MapGet(st.seen, key)
                     newFragment ==
                         [existing EXCEPT
                             !.selections = LegacyMergeSelectionSets(existing.selections,
                                                                     selection.selections)]
                 IN [seen |-> MapSet(st.seen, key, newFragment),
                     merged |-> ReplaceFirst(st.merged, sameType, newFragment)]
            ELSE [seen |-> MapSet(st.seen, key, selection),
                  merged |-> Append(st.merged, selection)]
    ELSE [seen |-> st.seen, merged |-> Append(st.merged, selection)]

MergeSelectionsLoop(selections, st) ==
    IF selections = <<>> THEN st
    ELSE MergeSelectionsLoop(Tail(selections), MergeSelectionsStep(st, Head(selections)))

mergeSelections(selections) ==
    MergeSelectionsLoop(selections, [seen |-> <<>>, merged |-> <<>>]).merged

LegacyFragmentNotFound(fragmentName) == "Fragment " \o fragmentName \o " not found"

RECURSIVE inlineFragments(_, _, _)
RECURSIVE LegacyInlineLoop(_, _, _)

LegacyInlineSelection(selection, fragmentMap, depth) ==
    IF selection.kind = "FragmentSpread"
    THEN LET fragment == PropertyGet(fragmentMap, selection.name)
         IN IF fragment.kind = "undefined"
            THEN Thrown(LegacyFragmentNotFound(selection.name))
            ELSE LET inlinedFragment == inlineFragments(fragment, fragmentMap, depth + 1)
                 IN IF inlinedFragment.error # "" THEN inlinedFragment
                    ELSE IF inlinedFragment.node.hasSel
                    THEN Returned([Undefined EXCEPT !.selections = inlinedFragment.node.selections])
                    ELSE Returned([Undefined EXCEPT !.selections = <<>>])
    ELSE IF selection.kind = "Field" \/ selection.kind = "InlineFragment"
    THEN LET inlined == inlineFragments(selection, fragmentMap, depth + 1)
         IN IF inlined.error # "" THEN inlined
            ELSE Returned([Undefined EXCEPT !.selections = <<inlined.node>>])
    ELSE Returned([Undefined EXCEPT !.selections = <<selection>>])

LegacyInlineLoop(selections, fragmentMap, depth) ==
    IF selections = <<>> THEN Returned([Undefined EXCEPT !.selections = <<>>])
    ELSE LET first == LegacyInlineSelection(Head(selections), fragmentMap, depth)
         IN IF first.error # "" THEN first
            ELSE LET rest == LegacyInlineLoop(Tail(selections), fragmentMap, depth)
                 IN IF rest.error # "" THEN rest
                    ELSE Returned([Undefined EXCEPT
                            !.selections = first.node.selections \o rest.node.selections])

inlineFragments(node, fragmentMap, depth) ==
    IF depth > StackLimit THEN Thrown(RangeError)
    ELSE IF ~node.hasSel THEN Returned(node)
    ELSE LET selections == LegacyInlineLoop(node.selections, fragmentMap, depth)
         IN IF selections.error # "" THEN selections
            ELSE Returned([node EXCEPT
                    !.selections = mergeSelections(selections.node.selections)])

RECURSIVE LegacyMapInline(_, _)
LegacyMapInline(definitions, fragmentMap) ==
    IF definitions = <<>> THEN Success(<<>>)
    ELSE LET first == inlineFragments(Head(definitions), fragmentMap, 1)
         IN IF first.error # "" THEN Failure(first.error)
            ELSE LET rest == LegacyMapInline(Tail(definitions), fragmentMap)
                 IN IF rest.status # "ok" THEN rest
                    ELSE Success(<<first.node>> \o rest.definitions)

inlineRelayQueryFromAST(document) ==
    LegacyMapInline(SelectSeq(document, IsOperation), buildFragmentMap(document))

LegacyInlineRelayQueryFromString(queryText) ==
    LET inlinedAST == inlineRelayQueryFromAST(parse(queryText))
    IN IF inlinedAST.status = "ok" THEN Success(print(inlinedAST.definitions))
       ELSE inlinedAST

(***************************************************************************)
(* The query texts of the model.                                           *)
(*                                                                         *)
(* Structural documents: one operation Q over fragments A and B, built     *)
(* from leaf fields, the field account (leaf or with a nested selection    *)
(* set), inline fragments and spreads, among them spreads of a fragment    *)
(* that is not defined, spreads of a name every plain object inherits, and *)
(* cyclic fragment references.                                             *)
(***************************************************************************)
MaxSels == 3
MaxArgs == 2

SeqsUpTo(S, n) == UNION {[1..k -> S] : k \in 1..n}

Distinct(s) == \A i, j \in 1..Len(s) : i # j => s[i].name # s[j].name

OpAtoms ==
    { Field("id", <<>>, <<>>),
      Field("account", <<>>, <<>>),
      Field("account", <<>>, <<Field("id", <<>>, <<>>)>>),
      InlineFragment("T", <<FragmentSpread("B")>>),
      FragmentSpread("A"),
      FragmentSpread("B") }

FragmentABodies ==
    { <<Field("id", <<>>, <<>>), Field("account", <<>>, <<Field("x", <<>>, <<>>)>>)>>,
      <<Field("account", <<>>, <<FragmentSpread("B"), Field("id", <<>>, <<>>)>>)>>,
      <<InlineFragment("T", <<Field("id", <<>>, <<>>), Field("id", <<>>, <<>>)>>),
        Field("account", <<>>, <<>>)>>,
      <<InlineFragment("", <<Field("x", <<>>, <<>>)>>), FragmentSpread("B"),
        InlineFragment("", <<Field("id", <<>>, <<>>)>>)>>,
      <<Field("x", <<>>, <<>>), FragmentSpread("A")>>,
      <<Field("x", <<>>, <<>>), FragmentSpread("Missing")>> }

FragmentBBodies ==
    { <<Field("x", <<>>, <<>>)>>,
      <<Field("account", <<>>, <<Field("x", <<>>, <<>>), Field("id", <<>>, <<>>)>>),
        AliasedField("id", "x", <<>>, <<>>)>>,
      <<Field("account", <<>>, <<FragmentSpread("A")>>)>>,
      <<FragmentSpread("toString"), Field("x", <<>>, <<>>)>> }

StructuralDocuments ==
    { << OperationDefinition("Q", sels),
         FragmentDefinition("A", "T", a),
         FragmentDefinition("B", "T", b) >> :
        sels \in SeqsUpTo(OpAtoms, MaxSels), a \in FragmentABodies, b \in FragmentBBodies }

(***************************************************************************)
(* Argument documents: the field f twice among the siblings of one         *)
(* selection set, once written in the operation and once either beside it  *)
(* or in fragment A (spread once or twice), with argument lists drawn      *)
(* independently.                                                          *)
(***************************************************************************)
ScalarValues == {IntValue("1"), IntValue("2")}

PlainArgLists ==
    {<<>>} \cup
    { args \in SeqsUpTo({Argument(n, v) : n \in {"a", "b"}, v \in ScalarValues}, MaxArgs) :
        Distinct(args) }

ObjectFieldLists ==
    { fs \in SeqsUpTo({ObjectField(n, v) : n \in {"a", "b"}, v \in ScalarValues}, MaxArgs) :
        Distinct(fs) }

ObjectArgLists ==
    { <<Argument("w", ObjectValue(fs))>> : fs \in ObjectFieldLists }

NestedObjectArgLists ==
    { <<Argument("where", ObjectValue(<<ObjectField("is_active", ObjectValue(fs))>>))>> :
        fs \in ObjectFieldLists }
    \cup
    { <<Argument("where", ObjectValue(<<ObjectField("is_active",
            ObjectValue(<<ObjectField("_eq", BooleanValue("true"))>>))>>))>> }

ArgLists == PlainArgLists \cup ObjectArgLists \cup NestedObjectArgLists

\* The nested selection sets of the two occurrences of f (<<>>: a leaf).
KidForms ==
    { << <<>>, <<Field("id", <<>>, <<>>)>> >>,
      << <<Field("id", <<>>, <<>>)>>, <<>> >>,
      << <<Field("id", <<>>, <<>>)>>, <<Field("x", <<>>, <<>>), Field("id", <<>>, <<>>)>> >> }

ArgumentDocuments ==
    { << OperationDefinition("Q",
            << Field("id", <<>>, <<>>), Field("f", args1, kids[1]) >>
            \o (CASE placement = "sibling" -> <<Field("f", args2, kids[2])>>
                  [] placement = "fragment" -> <<FragmentSpread("A")>>
                  [] placement = "twice" -> <<FragmentSpread("A"), FragmentSpread("A")>>)),
         FragmentDefinition("A", "T", <<Field("f", args2, kids[2])>>) >> :
        args1 \in ArgLists, args2 \in ArgLists, kids \in KidForms,
        placement \in {"sibling", "fragment", "twice"} }

(***************************************************************************)
(* Documents that define fragment A twice, with different selections,      *)
(* before, around and after the operation and fragment B that spread it.   *)
(***************************************************************************)
RedefinedBodies ==
    { <<Field("id", <<>>, <<>>)>>,
      <<Field("x", <<>>, <<>>), Field("account", <<>>, <<Field("id", <<>>, <<>>)>>)>>,
      <<Field("account", <<>>, <<Field("x", <<>>, <<>>)>>)>> }

RedefinedSelections ==
    { <<FragmentSpread("A")>>,
      <<Field("account", <<>>, <<FragmentSpread("A")>>), Field("id", <<>>, <<>>)>>,
      <<FragmentSpread("B")>> }

RedefinedDocuments ==
    { LET Q == OperationDefinition("Q", sels)
          A1 == FragmentDefinition("A", "T", first)
          A2 == FragmentDefinition("A", "T", last)
          B == FragmentDefinition("B", "T", <<Field("x", <<>>, <<>>), FragmentSpread("A")>>)
      IN CASE place = 1 -> <<Q, A1, B, A2>>
           [] place = 2 -> <<A1, Q, A2, B>>
           [] place = 3 -> <<A1, A2, B, Q>> :
        sels \in RedefinedSelections, first \in RedefinedBodies, last \in RedefinedBodies,
        place \in 1..3 }

(***************************************************************************)
(* Documents that spread fragment A at two nesting levels: under a field   *)
(* and under a field of that field (the example of the README), under two  *)
(* sibling fields, at the top and under a field or an inline fragment.     *)
(***************************************************************************)
LevelBodies ==
    { <<Field("id", <<>>, <<>>), Field("name", <<>>, <<>>), Field("age", <<>>, <<>>)>>,
      <<Field("id", <<>>, <<>>)>>,
      <<Field("id", <<>>, <<>>), Field("account", <<>>, <<Field("id", <<>>, <<>>)>>)>> }

LevelSelections ==
    { << Field("user", <<Argument("id", Variable("id"))>>,
               << FragmentSpread("A"), Field("friends", <<>>, <<FragmentSpread("A")>>) >>) >>,
      << Field("a", <<>>, <<FragmentSpread("A")>>), Field("b", <<>>, <<FragmentSpread("A")>>) >>,
      << FragmentSpread("A"), Field("user", <<>>, <<FragmentSpread("A")>>) >>,
      << FragmentSpread("A"), InlineFragment("T", <<FragmentSpread("A")>>) >> }

LevelDocuments ==
    { << OperationDefinition("Q", sels), FragmentDefinition("A", "T", body) >> :
        sels \in LevelSelections, body \in LevelBodies }

(***************************************************************************)
(* Documents with the field f twice among the siblings of the operation,   *)
(* its argument a bound to values of different kinds: literals with the    *)
(* same text, a variable and the object literal of its normal form, lists  *)
(* of the same elements in two orders, the empty object and objects with  *)
(* fields named __proto__.                                                 *)
(***************************************************************************)
KindValues ==
    { IntValue("1"), StringValue("1"), EnumValue("A"), StringValue("A"),
      BooleanValue("true"), StringValue("true"), NullValue,
      Variable("x"),
      ObjectValue(<<ObjectField("type", StringValue("variable")),
                    ObjectField("name", StringValue("x"))>>),
      ObjectValue(<<>>),
      ObjectValue(<<ObjectField("__proto__", IntValue("1"))>>),
      ObjectValue(<<ObjectField("__proto__", NullValue),
                    ObjectField("__proto__", IntValue("1"))>>),
      ListValue(<<IntValue("1"), IntValue("2")>>),
      ListValue(<<IntValue("2"), IntValue("1")>>) }

KindDocuments ==
    { << OperationDefinition("Q",
            << Field("f", <<Argument("a", v1)>>, <<Field("id", <<>>, <<>>)>>),
               Field("f", <<Argument("a", v2)>>, <<Field("x", <<>>, <<>>)>>) >>) >> :
        v1 \in KindValues, v2 \in KindValues }

Documents ==
    StructuralDocuments \cup ArgumentDocuments \cup RedefinedDocuments \cup LevelDocuments
        \cup KindDocuments

(***************************************************************************)
(* The state machine: a query text, and the outcomes of the calls made on  *)
(* it.  result: inlineRelayQueryFromString(text); legacy: the same call on *)
(* the earlier version; again: inlineRelayQueryFromString on the text that *)
(* result returned.                                                        *)
(***************************************************************************)
\* The parts of the program a specification leaves out stay as they are
\* before their first call.
SplitterIdle == pieces = <<>> /\ input = <<>> /\ parsed = NotCalled

GrouperIdle == entries = <<>> /\ files = NotCalled

EditorIdle ==
    /\ panel = "none" /\ doc = <<>> /\ timers = {} /\ compilationTimer = 0
    /\ edits = 0 /\ compiled = <<>>
    /\ panelProps = [operationText |-> <<>>, optimizedOperationText |-> <<>>]

TabsIdle ==
    /\ tabs = <<>>
    /\ activeTabId = ""
    /\ storage = <<>>
    /\ effectPending = FALSE
    /\ lastClose = [index |-> 0, active |-> FALSE]
    /\ nanoidCounter = 0
    /\ session = 0

Init ==
    /\ text \in Documents
    /\ result = NotCalled
    /\ legacy = NotCalled
    /\ again = NotCalled
    /\ SplitterIdle /\ GrouperIdle /\ TabsIdle /\ EditorIdle

Compile ==
    /\ result.status = "none"
    /\ result' = inlineRelayQueryFromString(text)
    /\ UNCHANGED <<text, legacy, again>>
    /\ UNCHANGED <<splitterVars, grouperVars, tabVars, editorVars>>

LegacyCompile ==
    /\ legacy.status = "none"
    /\ legacy' = LegacyInlineRelayQueryFromString(text)
    /\ UNCHANGED <<text, result, again>>
    /\ UNCHANGED <<splitterVars, grouperVars, tabVars, editorVars>>

Recompile ==
    /\ result.status = "ok"
    /\ again.status = "none"
    /\ again' = inlineRelayQueryFromString(result.definitions)
    /\ UNCHANGED <<text, result, legacy>>
    /\ UNCHANGED <<splitterVars, grouperVars, tabVars, editorVars>>

Next == Compile \/ LegacyCompile \/ Recompile

Spec == Init /\ [][Next]_vars

(***************************************************************************)
(* Vocabulary of the properties.                                           *)
(***************************************************************************)
Operations(document) == SelectSeq(document, IsOperation)

FragmentNames(document) ==
    {document[i].name : i \in {j \in 1..Len(document) : document[j].kind = "FragmentDefinition"}}

\* The selections of the fragment a spread of this name stands for.
FragmentBody(document, name) ==
    LET defs == {i \in 1..Len(document) :
                    document[i].kind = "FragmentDefinition" /\ document[i].name = name}
    IN document[CHOOSE i \in defs : \A j \in defs : j <= i].selections

RECURSIVE HasSpread(_)
HasSpread(selections) ==
    \E i \in 1..Len(selections) :
        selections[i].kind = "FragmentSpread" \/ HasSpread(selections[i].selections)

RECURSIVE SpreadNames(_)
SpreadNames(selections) ==
    UNION {IF selections[i].kind = "FragmentSpread" THEN {selections[i].name}
           ELSE SpreadNames(selections[i].selections) : i \in 1..Len(selections)}

RECURSIVE SpreadClosure(_, _)
SpreadClosure(document, names) ==
    LET next == names \cup UNION {SpreadNames(FragmentBody(document, n)) :
                                     n \in names \cap FragmentNames(document)}
    IN IF next = names THEN names ELSE SpreadClosure(document, next)

\* The fragment names an operation reaches through spreads.
ReachableNames(document) ==
    SpreadClosure(document,
        UNION {SpreadNames(document[i].selections) :
                  i \in {j \in 1..Len(document) : IsOperation(document[j])}})

UnresolvedNames(document) == ReachableNames(document) \ FragmentNames(document)

Cyclic(document) ==
    \E n \in ReachableNames(document) \cap FragmentNames(document) :
        n \in SpreadClosure(document, SpreadNames(FragmentBody(document, n)))

WellFormed(document) == UnresolvedNames(document) = {} /\ ~Cyclic(document)

\* The expanded sibling list: every spread replaced, at its position, by
\* the expanded selections of its fragment (only for acyclic references).
RECURSIVE Expand(_, _)
Expand(document, selections) ==
    Flatten([i \in 1..Len(selections) |->
                IF selections[i].kind = "FragmentSpread"
                THEN Expand(document, FragmentBody(document, selections[i].name))
                ELSE <<selections[i]>>])

MergeKey(selection) ==
    IF selection.kind = "Field" THEN createFieldKey(selection)
    ELSE IF selection.kind = "InlineFragment" THEN createInlineFragmentKey(selection)
    ELSE "spread:" \o selection.name

KeysOf(selections) == [i \in 1..Len(selections) |-> MergeKey(selections[i])]

RECURSIVE FirstOccurrences(_)
FirstOccurrences(keys) ==
    IF keys = <<>> THEN <<>>
    ELSE LET init == FirstOccurrences(SubSeq(keys, 1, Len(keys) - 1))
             last == keys[Len(keys)]
         IN IF \E i \in 1..Len(init) : init[i] = last THEN init ELSE Append(init, last)

\* The expanded nested selections of all the siblings with the given key.
NestedOf(document, expanded, key) ==
    LET SameKey(e) == MergeKey(e) = key
        occurrences == SelectSeq(expanded, SameKey)
    IN Flatten([j \in 1..Len(occurrences) |-> Expand(document, occurrences[j].selections)])

RECURSIVE UniqueKeysDeep(_)
UniqueKeysDeep(selections) ==
    /\ \A i, j \in 1..Len(selections) :
           i # j => MergeKey(selections[i]) # MergeKey(selections[j])
    /\ \A i \in 1..Len(selections) : UniqueKeysDeep(selections[i].selections)

RECURSIVE KeysKept(_, _, _)
KeysKept(document, output, expanded) ==
    /\ {MergeKey(output[i]) : i \in 1..Len(output)}
           = {MergeKey(expanded[i]) : i \in 1..Len(expanded)}
    /\ \A i \in 1..Len(output) :
           KeysKept(document, output[i].selections,
                    NestedOf(document, expanded, MergeKey(output[i])))

RECURSIVE FirstOccurrenceOrder(_, _, _)
FirstOccurrenceOrder(document, output, expanded) ==
    /\ KeysOf(output) = FirstOccurrences(KeysOf(expanded))
    /\ \A i \in 1..Len(output) :
           FirstOccurrenceOrder(document, output[i].selections,
                                NestedOf(document, expanded, MergeKey(output[i])))

\* A property of every operation an outcome returns, beside the operation
\* of the text it was made from.
ForOperations(outcome, P(_, _)) ==
    \A i \in 1..Len(outcome.definitions) :
        P(outcome.definitions[i], Operations(text)[i])

Called(outcome) == outcome.status # "none"

(***************************************************************************)
(* C1.  For a document whose reachable spreads all name defined fragments  *)
(* and whose fragment references are acyclic, the inliner returns a        *)
(* document of operation definitions only, in which no FragmentSpread      *)
(* occurs at any depth of any selection tree.                              *)
(***************************************************************************)
C1_NoSpreadSurvives ==
    (Called(result) /\ WellFormed(text)) =>
        /\ result.status = "ok"
        /\ Len(result.definitions) = Len(Operations(text))
        /\ \A i \in 1..Len(result.definitions) :
               /\ result.definitions[i].kind = "OperationDefinition"
               /\ ~HasSpread(result.definitions[i].selections)

\* A spread inside an inline fragment of the operation, and one at the top
\* level whose fragment spreads another inside a field, were expanded.
C1_Witness ==
    /\ result.status = "ok"
    /\ WellFormed(text)
    /\ \E i \in 1..Len(text[1].selections) :
           /\ text[1].selections[i].kind = "InlineFragment"
           /\ HasSpread(text[1].selections[i].selections)
    /\ \E i \in 1..Len(text[1].selections) :
           /\ text[1].selections[i].kind = "FragmentSpread"
           /\ text[1].selections[i].name = "A"
           /\ HasSpread(FragmentBody(text, "A"))

(***************************************************************************)
(* C2.  In the output of the inliner (either version), at every nesting    *)
(* level no two sibling selections have the same merge key, and the merge  *)
(* keys of every level are exactly those of the expanded sibling list: no  *)
(* selection with a distinct key is lost or overwritten.                   *)
(***************************************************************************)
C2Holds(outcome) ==
    (outcome.status = "ok" /\ WellFormed(text)) =>
        LET Kept(out, op) ==
                /\ UniqueKeysDeep(out.selections)
                /\ KeysKept(text, out.selections, Expand(text, op.selections))
        IN ForOperations(outcome, Kept)

C2_UniqueKeysNothingLost == C2Holds(result) /\ C2Holds(legacy)

(***************************************************************************)
(* C3.  At every nesting level the output lists the merge keys in the      *)
(* order of their first occurrence in the expanded sibling list, the       *)
(* nested selections of a merged entry being ordered the same way over the *)
(* concatenation of the nested lists of its occurrences.                   *)
(***************************************************************************)
C3_FirstOccurrenceOrder ==
    (result.status = "ok" /\ WellFormed(text)) =>
        LET Ordered(out, op) ==
                FirstOccurrenceOrder(text, out.selections, Expand(text, op.selections))
        IN ForOperations(result, Ordered)

\* { id, account { id }, ...A } with A = { id, account { x } } has given
\* { id, account { id, x } }.
C3_Witness ==
    /\ text[1].selections = << Field("id", <<>>, <<>>),
                                Field("account", <<>>, <<Field("id", <<>>, <<>>)>>),
                                FragmentSpread("A") >>
    /\ FragmentBody(text, "A") = << Field("id", <<>>, <<>>),
                                    Field("account", <<>>, <<Field("x", <<>>, <<>>)>>) >>
    /\ result.status = "ok"
    /\ result.definitions[1].selections =
           << Field("id", <<>>, <<>>),
              Field("account", <<>>, <<Field("id", <<>>, <<>>), Field("x", <<>>, <<>>)>>) >>

(***************************************************************************)
(* C4.  Two sibling fields with the same merge key, exactly one of which   *)
(* carries a nested selection set, leave a single field of that key in the *)
(* output (of either version), carrying a nested selection set, whichever  *)
(* of the two comes first.                                                 *)
(***************************************************************************)
FieldsWithKey(selections, key) ==
    LET HasKey(e) == e.kind = "Field" /\ MergeKey(e) = key
    IN SelectSeq(selections, HasKey)

C4Holds(outcome) ==
    (outcome.status = "ok" /\ WellFormed(text)) =>
        LET Adopted(out, op) ==
                LET expanded == Expand(text, op.selections)
                IN \A i, j \in 1..Len(expanded) :
                       ( /\ i < j
                         /\ expanded[i].kind = "Field" /\ expanded[j].kind = "Field"
                         /\ MergeKey(expanded[i]) = MergeKey(expanded[j])
                         /\ expanded[i].hasSel # expanded[j].hasSel )
                       => LET merged == FieldsWithKey(out.selections, MergeKey(expanded[i]))
                          IN Len(merged) = 1 /\ merged[1].hasSel /\ merged[1].selections # <<>>
        IN ForOperations(outcome, Adopted)

C4_LeafAdoptsSelectionSet == C4Holds(result) /\ C4Holds(legacy)

(***************************************************************************)
(* Vocabulary of the argument properties.                                  *)
(***************************************************************************)
ResponseName(field) == IF field.alias # "" THEN field.alias ELSE field.name

\* The argument lists with the same arguments in another order.
ArgumentPermutations(arguments) ==
    { p \in [1..Len(arguments) -> {arguments[i] : i \in 1..Len(arguments)}] :
        \A i \in 1..Len(arguments) : \E j \in 1..Len(arguments) : p[j] = arguments[i] }

\* Equality of values up to the order of the fields of objects, at any depth.
RECURSIVE SameValue(_, _)
SameValue(v1, v2) ==
    /\ v1.kind = v2.kind
    /\ v1.value = v2.value
    /\ Len(v1.fields) = Len(v2.fields)
    /\ IF v1.kind = "ObjectValue"
       THEN /\ \A i \in 1..Len(v1.fields) : \E j \in 1..Len(v2.fields) :
                   /\ v1.fields[i].name = v2.fields[j].name
                   /\ SameValue(v1.fields[i].value, v2.fields[j].value)
            /\ \A j \in 1..Len(v2.fields) : \E i \in 1..Len(v1.fields) :
                   /\ v1.fields[i].name = v2.fields[j].name
                   /\ SameValue(v1.fields[i].value, v2.fields[j].value)
       ELSE \A i \in 1..Len(v1.fields) :
                SameValue(v1.fields[i].value, v2.fields[i].value)

\* The same argument list, but for the order of the fields of object values.
SameArgumentsUpToFieldOrder(args1, args2) ==
    /\ Len(args1) = Len(args2)
    /\ \A i \in 1..Len(args1) :
           /\ args1[i].name = args2[i].name
           /\ SameValue(args1[i].value, args2[i].value)

\* The fields of the output with the given response name.
FieldsNamed(selections, name) ==
    LET HasName(e) == e.kind = "Field" /\ ResponseName(e) = name
    IN SelectSeq(selections, HasName)

\* Sibling fields with the same response name and related argument lists
\* are merged (Related is an equivalence): the output holds no more fields
\* of a response name than the expanded sibling list holds classes of
\* related argument lists under that name.
MergedWhen(outcome, Related(_, _)) ==
    LET Merged(out, op) ==
            LET expanded == Expand(text, op.selections)
                Named(n) == {i \in 1..Len(expanded) :
                                expanded[i].kind = "Field" /\ ResponseName(expanded[i]) = n}
                FirstOfClass(n) ==
                    {i \in Named(n) :
                        \A j \in Named(n) :
                            j < i => ~Related(expanded[j].arguments, expanded[i].arguments)}
            IN \A k \in 1..Len(expanded) :
                   expanded[k].kind = "Field" =>
                       Len(FieldsNamed(out.selections, ResponseName(expanded[k])))
                           <= Cardinality(FirstOfClass(ResponseName(expanded[k])))
    IN ForOperations(outcome, Merged)

(***************************************************************************)
(* C5.  The canonical argument key is the same for an argument list and    *)
(* every permutation of it, and two sibling fields with the same response  *)
(* name whose argument lists are permutations of each other are merged     *)
(* into one field.                                                         *)
(***************************************************************************)
IsPermutation(args1, args2) == args2 \in ArgumentPermutations(args1)

C5_ArgumentOrderInvariant ==
    (result.status = "ok" /\ WellFormed(text)) =>
        /\ LET SameKeys(out, op) ==
                   LET expanded == Expand(text, op.selections)
                   IN \A i \in 1..Len(expanded) :
                          \A p \in ArgumentPermutations(expanded[i].arguments) :
                              createArgumentKey(p) = createArgumentKey(expanded[i].arguments)
           IN ForOperations(result, SameKeys)
        /\ MergedWhen(result, IsPermutation)

\* f(a: 1, b: 2) in the operation and f(b: 2, a: 1) in the fragment.
C5_Witness ==
    /\ result.status = "ok"
    /\ Len(text[1].selections) = 3
    /\ text[1].selections[3].kind = "FragmentSpread"
    /\ text[1].selections[2].arguments =
           <<Argument("a", IntValue("1")), Argument("b", IntValue("2"))>>
    /\ FragmentBody(text, "A")[1].arguments =
           <<Argument("b", IntValue("2")), Argument("a", IntValue("1"))>>
    /\ Len(FieldsNamed(result.definitions[1].selections, "f")) = 1

(***************************************************************************)
(* C6.  The canonical argument key does not depend on the order of the     *)
(* fields inside an object-valued argument, at any depth: two sibling      *)
(* fields whose arguments differ only in that order have the same merge    *)
(* key and are merged.                                                     *)
(***************************************************************************)
C6_ObjectFieldOrderInvariant ==
    (result.status = "ok" /\ WellFormed(text)) =>
        /\ LET SameKeys(out, op) ==
                   LET expanded == Expand(text, op.selections)
                   IN \A i, j \in 1..Len(expanded) :
                          SameArgumentsUpToFieldOrder(expanded[i].arguments,
                                                      expanded[j].arguments)
                          => createArgumentKey(expanded[i].arguments)
                                 = createArgumentKey(expanded[j].arguments)
           IN ForOperations(result, SameKeys)
        /\ MergedWhen(result, SameArgumentsUpToFieldOrder)

(***************************************************************************)
(* C7.  Two sibling fields with the same response name and the same        *)
(* argument values, one written in the operation and one in a fragment,    *)
(* are merged (by either version) into one field whose nested selection    *)
(* set is the merge of both: the key does not depend on source positions.  *)
(***************************************************************************)
SameArguments(args1, args2) == args1 = args2

C7Holds(outcome) ==
    (outcome.status = "ok" /\ WellFormed(text)) =>
        /\ MergedWhen(outcome, SameArguments)
        /\ LET NestedMerged(out, op) ==
                   \A i \in 1..Len(out.selections) :
                       out.selections[i].kind = "Field" =>
                           KeysOf(out.selections[i].selections) =
                               FirstOccurrences(KeysOf(
                                   NestedOf(text, Expand(text, op.selections),
                                            MergeKey(out.selections[i]))))
           IN ForOperations(outcome, NestedMerged)

C7_PositionIndependentKey == C7Holds(result) /\ C7Holds(legacy)

(***************************************************************************)
(* C8.  When an operation reaches a spread of a fragment that the document *)
(* does not define, the call fails with an error that names that fragment, *)
(* and returns no document.                                                *)
(***************************************************************************)
C8_UnresolvedFragmentFails ==
    (Called(result) /\ UnresolvedNames(text) # {} /\ ~Cyclic(text)) =>
        /\ result.status = "error"
        /\ result.definitions = <<>>
        /\ \E n \in UnresolvedNames(text) : result.message = FragmentNotFound(n)

(***************************************************************************)
(* C9.  When the fragment references an operation reaches are cyclic, the  *)
(* call ends with a CyclicFragment error (not with the exhaustion of the   *)
(* call stack).                                                            *)
(***************************************************************************)
CyclicFragmentError(message) ==
    /\ message # RangeError
    /\ \A n \in ReachableNames(text) : message # FragmentNotFound(n)

C9_CyclicFragmentError ==
    (Called(result) /\ Cyclic(text) /\ UnresolvedNames(text) = {}) =>
        /\ result.status = "error"
        /\ CyclicFragmentError(result.message)

(***************************************************************************)
(* C10.  A document whose operations hold no spread comes back with every  *)
(* selection set replaced by its deduplication, and otherwise unchanged;   *)
(* and inlining the text the inliner returned returns that text.           *)
(***************************************************************************)
RECURSIVE DeduplicatedDeep(_)
DeduplicatedDeep(selections) ==
    deduplicateSelections(
        [i \in 1..Len(selections) |->
            [selections[i] EXCEPT !.selections = DeduplicatedDeep(@)]])

Str(chars) == Join(chars, "")

CharAt(chars, index) == chars[index + 1]

\* The characters /\s/ matches, among those of the texts of the model.
Whitespace == {" ", "\n", "\t"}

\* The characters [A-Za-z0-9_] matches.
NameCharacters ==
    {"A", "B", "C", "D", "E", "F", "G", "H", "I", "J", "K", "L", "M",
     "N", "O", "P", "Q", "R", "S", "T", "U", "V", "W", "X", "Y", "Z",
     "a", "b", "c", "d", "e", "f", "g", "h", "i", "j", "k", "l", "m",
     "n", "o", "p", "q", "r", "s", "t", "u", "v", "w", "x", "y", "z",
     "0", "1", "2", "3", "4", "5", "6", "7", "8", "9", "_"}

QueryKeyword == <<"q", "u", "e", "r", "y">>

FragmentKeyword == <<"f", "r", "a", "g", "m", "e", "n", "t">>

QuerySuffix == <<"Q", "u", "e", "r", "y">>

Extension == <<".", "j", "s">>

Keyword(type) == IF type = "query" THEN QueryKeyword ELSE FragmentKeyword

\* String.prototype.startsWith(searchString, position)
startsWith(chars, searchString, position) ==
    /\ position + Len(searchString) <= Len(chars)
    /\ SubSeq(chars, position + 1, position + Len(searchString)) = searchString

\* String.prototype.endsWith(searchString)
endsWith(chars, searchString) ==
    /\ Len(searchString) <= Len(chars)
    /\ SubSeq(chars, Len(chars) - Len(searchString) + 1, Len(chars)) = searchString

\* String.prototype.substring(start, end)
substring(chars, start, end) == SubSeq(chars, start + 1, end)

\* String.prototype.indexOf(character): -1 when absent.
RECURSIVE IndexFrom(_, _, _)
IndexFrom(chars, character, index) ==
    IF index >= Len(chars) THEN -1
    ELSE IF CharAt(chars, index) = character THEN index
    ELSE IndexFrom(chars, character, index + 1)

indexOf(chars, character) == IndexFrom(chars, character, 0)

\* while (index < length && /\s/.test(input[index])) index++
RECURSIVE SkipWhitespace(_, _)
SkipWhitespace(chars, index) ==
    IF index < Len(chars) /\ CharAt(chars, index) \in Whitespace
    THEN SkipWhitespace(chars, index + 1)
    ELSE index

\* A match of one character only.
NameMatchOneCharacter(chars, index) ==
    IF index < Len(chars) /\ CharAt(chars, index) \in NameCharacters
    THEN <<CharAt(chars, index)>>
    ELSE <<>>

\* /^[A-Za-z0-9_]+/.exec(input.substring(index)): the match, <<>> for null.
RECURSIVE NameMatch(_, _)
NameMatch(chars, index) ==
    IF index < Len(chars) /\ CharAt(chars, index) \in NameCharacters
    THEN <<CharAt(chars, index)>> \o NameMatch(chars, index + 1)
    ELSE <<>>

\* while (index < length && input[index] !== '{') index++
RECURSIVE SkipToBrace(_, _)
SkipToBrace(chars, index) ==
    IF index < Len(chars) /\ CharAt(chars, index) # "{"
    THEN SkipToBrace(chars, index + 1)
    ELSE index

\* A loop that takes the first closing brace, counting none.
MatchBracesFirstClosing(chars, index, braceCount) ==
    IF IndexFrom(chars, "}", index) = -1 THEN [endBlockIndex |-> -1, index |-> Len(chars)]
    ELSE [endBlockIndex |-> IndexFrom(chars, "}", index),
          index |-> IndexFrom(chars, "}", index) + 1]

\* The brace counting loop: endBlockIndex and the index it leaves.
RECURSIVE MatchBraces(_, _, _)
\* A loop that takes the end of the input for the closing brace.
MatchBracesClosedByEnd(chars, index, braceCount) ==
    IF index >= Len(chars) THEN [endBlockIndex |-> Len(chars) - 1, index |-> index]
    ELSE IF CharAt(chars, index) = "{"
    THEN MatchBraces(chars, index + 1, braceCount + 1)
    ELSE IF CharAt(chars, index) = "}"
    THEN IF braceCount - 1 = 0
         THEN [endBlockIndex |-> index, index |-> index + 1]
         ELSE MatchBraces(chars, index + 1, braceCount - 1)
    ELSE MatchBraces(chars, index + 1, braceCount)

MatchBraces(chars, index, braceCount) ==
    IF index >= Len(chars) THEN [endBlockIndex |-> -1, index |-> index]
    ELSE IF CharAt(chars, index) = "{"
    THEN MatchBraces(chars, index + 1, braceCount + 1)
    ELSE IF CharAt(chars, index) = "}"
    THEN IF braceCount - 1 = 0
         THEN [endBlockIndex |-> index, index |-> index + 1]
         ELSE MatchBraces(chars, index + 1, braceCount - 1)
    ELSE MatchBraces(chars, index + 1, braceCount)

\* The filename of a query: the name without a trailing "Query".
QueryFilename(name) ==
    LET baseName == IF endsWith(name, QuerySuffix)
                    THEN SubSeq(name, 1, Len(name) - Len(QuerySuffix))
                    ELSE name
    IN baseName \o Extension

\* A filename made of the name before its last underscore.
RECURSIVE FragmentFilenameToLastUnderscore(_)
FragmentFilenameToLastUnderscore(name) ==
    IF name = <<>> \/ indexOf(name, "_") = -1 THEN name \o Extension
    ELSE IF name[Len(name)] = "_" THEN SubSeq(name, 1, Len(name) - 1) \o Extension
    ELSE FragmentFilenameToLastUnderscore(SubSeq(name, 1, Len(name) - 1))

\* The filename of a fragment: the name before its first underscore.
FragmentFilename(name) ==
    LET underscoreIndex == indexOf(name, "_")
        baseName == IF underscoreIndex # -1 THEN substring(name, 0, underscoreIndex) ELSE name
    IN baseName \o Extension

Filename(type, name) ==
    IF type = "query" THEN QueryFilename(name) ELSE FragmentFilename(name)

\* A content that ends before the closing brace.
DefinitionContentBeforeBrace(chars, startDefinition, endBlockIndex) ==
    substring(chars, startDefinition, endBlockIndex)

\* input.substring(startDefinition, endBlockIndex + 1)
DefinitionContent(chars, startDefinition, endBlockIndex) ==
    substring(chars, startDefinition, endBlockIndex + 1)

Definition(type, filename, content) ==
    [type |-> type, filename |-> filename, content |-> content]

CouldNotParseName(index) ==
    "Could not parse definition name at position " \o ToString(index)

NoMatchingBrace(name) ==
    "No matching closing brace found for definition " \o Str(name)

\* One round of the outer while loop and the rounds after it: the list
\* returned, or the error thrown.
RECURSIVE ParseLoop(_, _, _)
ParseLoop(chars, index, definitions) ==
    LET length == Len(chars)
        scan == SkipWhitespace(chars, index)
    IN IF index >= length \/ scan >= length THEN Success(definitions)
       ELSE IF startsWith(chars, QueryKeyword, scan) \/ startsWith(chars, FragmentKeyword, scan)
       THEN LET startDefinition == scan
                type == IF startsWith(chars, QueryKeyword, scan) THEN "query" ELSE "fragment"
                nameIndex == SkipWhitespace(chars, scan + Len(Keyword(type)))
                name == NameMatch(chars, nameIndex)
            IN IF name = <<>> THEN Failure(CouldNotParseName(nameIndex))
               ELSE LET braceIndex == SkipToBrace(chars, nameIndex + Len(name))
                    IN IF braceIndex >= length THEN Success(definitions)
                       ELSE LET block == MatchBraces(chars, braceIndex, 0)
                            IN IF block.endBlockIndex = -1 THEN Failure(NoMatchingBrace(name))
                               ELSE ParseLoop(chars, block.index,
                                        Append(definitions,
                                            Definition(type, Filename(type, name),
                                                DefinitionContent(chars, startDefinition,
                                                                  block.endBlockIndex))))
       ELSE ParseLoop(chars, scan + 1, definitions)

parseGraphQLDefinitions(chars) == ParseLoop(chars, 0, <<>>)

\* The rounds of the outer while loop that came to their end: the index at
\* which each began (at), the index it left (next) and, when it pushed a
\* definition, startDefinition and endBlockIndex (-1 when it skipped a
\* character).
Round(at, startDefinition, endBlockIndex, next) ==
    [at |-> at, startDefinition |-> startDefinition,
     endBlockIndex |-> endBlockIndex, next |-> next]

RECURSIVE ScanLoop(_, _, _)
ScanLoop(chars, index, rounds) ==
    LET length == Len(chars)
        scan == SkipWhitespace(chars, index)
    IN IF index >= length \/ scan >= length THEN rounds
       ELSE IF startsWith(chars, QueryKeyword, scan) \/ startsWith(chars, FragmentKeyword, scan)
       THEN LET type == IF startsWith(chars, QueryKeyword, scan) THEN "query" ELSE "fragment"
                nameIndex == SkipWhitespace(chars, scan + Len(Keyword(type)))
                name == NameMatch(chars, nameIndex)
                braceIndex == SkipToBrace(chars, nameIndex + Len(name))
                block == MatchBraces(chars, braceIndex, 0)
            IN IF name = <<>> \/ braceIndex >= length \/ block.endBlockIndex = -1 THEN rounds
               ELSE ScanLoop(chars, block.index,
                             Append(rounds, Round(index, scan, block.endBlockIndex, block.index)))
       ELSE ScanLoop(chars, scan + 1, Append(rounds, Round(index, -1, -1, scan + 1)))

ScanRounds(chars) == ScanLoop(chars, 0, <<>>)

(***************************************************************************)
(* The texts handed to the splitter: up to MaxPieces pieces written one    *)
(* after the other.  A piece is a well-formed definition (keyword, name,   *)
(* body with matching braces), a text that is no definition, a definition  *)
(* whose body is still open where the piece ends ("open"), a keyword with  *)
(* no name after it ("nameless") or a keyword and name with no body        *)
(* ("headless").                                                           *)
(***************************************************************************)
MaxPieces == 3

Piece(kind, type, name, chars) ==
    [kind |-> kind, type |-> type, name |-> name, chars |-> chars]

DefinitionPiece(type, name, rest) ==
    Piece("definition", type, name, Keyword(type) \o <<" ">> \o name \o rest)

TextPiece(chars) == Piece("text", "", <<>>, chars)

OnType == <<" ", "o", "n", " ", "T">>

Foo == <<"F", "o", "o">>

StructuralPieces ==
    { DefinitionPiece("query", <<"A">>, <<"{", "f", "}">>),
      DefinitionPiece("fragment", <<"B", "_", "x">>, OnType \o <<"{", "g", "}">>),
      DefinitionPiece("query", Foo \o QuerySuffix, <<" ", "{", "a", "{", "b", "}", "}">>),
      TextPiece(<<" ">>),
      TextPiece(<<"\n", "#", " ", "n", "o", "t", "e", "\n">>),
      TextPiece(<<"}", "x", "{">>),
      TextPiece(<<"/", "/", " ", "m", "y", " ">> \o QueryKeyword \o <<"\n">>),
      Piece("open", "query", <<"C">>, QueryKeyword \o <<" ", "C", "{", "f">>),
      Piece("open", "fragment", <<"D", "_", "y">>,
            FragmentKeyword \o <<" ", "D", "_", "y">> \o OnType \o <<"{", "g", "{", "h", "}">>),
      Piece("nameless", "query", <<>>, QueryKeyword \o <<" ", "{", "f", "}">>),
      Piece("headless", "query", <<"E">>, QueryKeyword \o <<" ", "E">>) }

StructuralTexts == SeqsUpTo(StructuralPieces, MaxPieces)

\* The names of the definitions whose filename is computed.
Names ==
    { <<"A">>, <<"B", "_", "x">>, Foo \o QuerySuffix, Foo \o <<"_", "u", "s", "e", "r">>,
      QuerySuffix, QuerySuffix \o QuerySuffix, Foo \o <<"_">> \o QuerySuffix,
      <<"a", "_", "b", "_", "c">>, <<"_", "x">>, <<"f", "o", "o">> \o QueryKeyword,
      <<"f", "o", "o", "Q", "U", "E", "R", "Y">> }

NamedTexts ==
    { <<DefinitionPiece(type, name, rest)>> :
        type \in {"query", "fragment"}, name \in Names,
        rest \in {<<"{", "f", "}">>, <<"(", "$", "x", ")", " ", "{", "a", "{", "b", "}", "}">>} }

\* Texts of one piece: a keyword, whitespace or none, and then a name, or
\* what is no name, or nothing.
Gaps == {<<>>, <<" ">>, <<"\n", "\t">>}

HeaderTexts ==
    { <<Piece("nameless", type, <<>>, Keyword(type) \o gap \o rest)>> :
        type \in {"query", "fragment"}, gap \in Gaps,
        rest \in {<<>>, <<"{", "f", "}">>, <<"(", "x", ")", "{", "f", "}">>,
                  <<"-", "A", "{", "f", "}">>} }
    \cup
    { <<Piece(body[1], type, name, Keyword(type) \o gap \o name \o body[2])>> :
        type \in {"query", "fragment"}, gap \in Gaps,
        name \in {<<"A">>, <<"a", "1", "_">>},
        body \in {<<"definition", <<"{", "f", "}">>>>, <<"definition", <<"-", "b", "{", "f", "}">>>>,
                  <<"open", <<"{", "f">>>>, <<"open", <<" ", "b", "{", "f">>>>} }

\* Texts in which a keyword is written inside the body of a definition.
NestedPieces ==
    { DefinitionPiece("query", <<"G">>, <<"{">> \o QueryKeyword \o <<" ", "H", "{", "f", "}", "}">>),
      DefinitionPiece("fragment", <<"K">>, OnType \o <<"{">> \o FragmentKeyword \o <<"{", "x", "}", "}">>) }

NestedTexts ==
    { <<p>> : p \in NestedPieces }
    \cup { <<p, DefinitionPiece("query", <<"A">>, <<"{", "f", "}">>)>> : p \in NestedPieces }
    \cup { <<p, q>> : p \in NestedPieces, q \in NestedPieces }

Texts == StructuralTexts \cup NamedTexts \cup HeaderTexts \cup NestedTexts

TextOf(ps) == Flatten([i \in 1..Len(ps) |-> ps[i].chars])

(***************************************************************************)
(* The splitter's state machine: a text, written from pieces, and the      *)
(* outcome of parseGraphQLDefinitions on it.                               *)
(***************************************************************************)
InlinerIdle ==
    text = <<>> /\ result = NotCalled /\ legacy = NotCalled /\ again = NotCalled

SplitInit ==
    /\ pieces \in Texts
    /\ input = TextOf(pieces)
    /\ parsed = NotCalled
    /\ InlinerIdle /\ GrouperIdle /\ TabsIdle /\ EditorIdle

Split ==
    /\ parsed.status = "none"
    /\ parsed' = parseGraphQLDefinitions(input)
    /\ UNCHANGED <<pieces, input>>
    /\ UNCHANGED <<inlinerVars, grouperVars, tabVars, editorVars>>

SplitNext == Split

SplitSpec == SplitInit /\ [][SplitNext]_vars

(***************************************************************************)
(* Documents of two operations and texts of several definitions, for the   *)
(* calls that fail after a part of their input was processed.              *)
(***************************************************************************)
UnitSelections ==
    { <<Field("id", <<>>, <<>>)>>,
      <<Field("id", <<>>, <<>>), FragmentSpread("A")>>,
      <<FragmentSpread("B"), Field("id", <<>>, <<>>)>>,
      <<Field("account", <<>>, <<FragmentSpread("Missing")>>)>> }

UnitDocuments ==
    { << OperationDefinition("Q", q),
         FragmentDefinition("A", "T", a),
         OperationDefinition("R", r),
         FragmentDefinition("B", "T", b) >> :
        q \in UnitSelections, r \in UnitSelections,
        a \in { <<Field("x", <<>>, <<>>)>>,
                <<Field("x", <<>>, <<>>), FragmentSpread("A")>>,
                <<FragmentSpread("Gone")>> },
        b \in { <<Field("x", <<>>, <<>>)>>, <<Field("id", <<>>, <<>>), FragmentSpread("B")>> } }

UnitPieces ==
    {p \in StructuralPieces :
        p.kind \in {"definition", "open", "nameless"} /\ p.name \in {<<>>, <<"A">>, <<"C">>}}

UnitTexts == SeqsUpTo(UnitPieces, MaxPieces)

UnitInit ==
    /\ text \in UnitDocuments
    /\ result = NotCalled
    /\ legacy = NotCalled
    /\ again = NotCalled
    /\ pieces \in UnitTexts
    /\ input = TextOf(pieces)
    /\ parsed = NotCalled
    /\ GrouperIdle /\ TabsIdle /\ EditorIdle

UnitNext == Compile \/ Split

UnitSpec == UnitInit /\ [][UnitNext]_vars

\* The document with one of its operations only, beside its fragments.
OperationAlone(document, i) ==
    LET Kept(def) == ~IsOperation(def) \/ def = Operations(document)[i]
    IN SelectSeq(document, Kept)

\* The operations of the document whose inlining throws.
FailingOperations(document) ==
    {i \in 1..Len(Operations(document)) :
        inlineRelayQueryFromString(OperationAlone(document, i)).status = "error"}

\* The pieces whose definition makes the splitter throw, each after
\* well-formed definitions only.
FailingPieces(ps) ==
    {k \in 1..Len(ps) :
        /\ \A j \in 1..(k - 1) : ps[j].kind = "definition"
        /\ ps[k].kind # "definition"
        /\ parseGraphQLDefinitions(TextOf(SubSeq(ps, k, Len(ps)))).status = "error"}

(***************************************************************************)
(* C11.  A call of the inliner or of the splitter returns a complete       *)
(* result or fails as a unit: when an operation of the document (a         *)
(* definition of the text) makes the call throw, the caller gets the error *)
(* and no operation (no definition), whatever was processed before it.     *)
(***************************************************************************)
C11_FailsAsUnit ==
    /\ (Called(result) /\ FailingOperations(text) # {}) =>
           /\ result.status = "error"
           /\ result.definitions = <<>>
           /\ \E i \in FailingOperations(text) :
                  result.message = inlineRelayQueryFromString(OperationAlone(text, i)).message
    /\ (Called(result) /\ FailingOperations(text) = {}) =>
           /\ result.status = "ok"
           /\ Len(result.definitions) = Len(Operations(text))
    /\ (Called(parsed) /\ FailingPieces(pieces) # {}) =>
           /\ parsed.status = "error"
           /\ parsed.definitions = <<>>
    /\ (Called(parsed) /\ \A k \in 1..Len(pieces) : pieces[k].kind = "definition") =>
           /\ parsed.status = "ok"
           /\ Len(parsed.definitions) = Len(pieces)

\* Both calls failed after their first operation, or definition, had been
\* processed without an error.
C11_Witness ==
    /\ result.status = "error"
    /\ FailingOperations(text) = {2}
    /\ parsed.status = "error"
    /\ Len(pieces) >= 2
    /\ FailingPieces(pieces) # {}
    /\ 1 \notin FailingPieces(pieces)

(***************************************************************************)
(* Vocabulary of the splitter's properties.                                *)
(***************************************************************************)
\* The first offset, from the given one on, at which content is written in
\* chars; -1 when there is none.
RECURSIVE Locate(_, _, _)
Locate(chars, content, from) ==
    IF from + Len(content) > Len(chars) THEN -1
    ELSE IF SubSeq(chars, from + 1, from + Len(content)) = content THEN from
    ELSE Locate(chars, content, from + 1)

\* The definitions lie in chars one after the other, in this order.
RECURSIVE InSourceOrder(_, _, _)
InSourceOrder(chars, definitions, from) ==
    \/ definitions = <<>>
    \/ LET at == Locate(chars, Head(definitions).content, from)
       IN /\ at # -1
          /\ InSourceOrder(chars, Tail(definitions), at + Len(Head(definitions).content))

\* Opening minus closing braces.
RECURSIVE BraceDepth(_)
BraceDepth(chars) ==
    IF chars = <<>> THEN 0
    ELSE BraceDepth(Tail(chars))
            + (IF Head(chars) = "{" THEN 1 ELSE IF Head(chars) = "}" THEN -1 ELSE 0)

\* content runs from a keyword through the brace that closes the body its
\* first opening brace opens, and not further.
KeywordThroughClosingBrace(type, content) ==
    LET braces == {k \in 1..Len(content) : content[k] = "{"}
    IN /\ Len(content) >= Len(Keyword(type))
       /\ SubSeq(content, 1, Len(Keyword(type))) = Keyword(type)
       /\ braces # {}
       /\ LET open == CHOOSE k \in braces : \A j \in braces : k <= j
          IN /\ content[Len(content)] = "}"
             /\ BraceDepth(SubSeq(content, open, Len(content))) = 0
             /\ \A k \in open..(Len(content) - 1) :
                    BraceDepth(SubSeq(content, open, k)) > 0

HasKeyword(chars) ==
    \E index \in 0..Len(chars) :
        \/ index + Len(QueryKeyword) <= Len(chars)
           /\ SubSeq(chars, index + 1, index + Len(QueryKeyword)) = QueryKeyword
        \/ index + Len(FragmentKeyword) <= Len(chars)
           /\ SubSeq(chars, index + 1, index + Len(FragmentKeyword)) = FragmentKeyword

IsDefinitionPiece(p) == p.kind = "definition"

DefinitionPieces(ps) == SelectSeq(ps, IsDefinitionPiece)

\* Well-formed definitions with, around them, text in which no keyword is
\* written.
PlainText(ps) ==
    \A k \in 1..Len(ps) :
        \/ ps[k].kind = "definition"
        \/ ps[k].kind = "text" /\ ~HasKeyword(ps[k].chars)

ExampleText ==
    << DefinitionPiece("query", <<"A">>, <<"{", "f", "}">>),
       TextPiece(<<" ">>),
       DefinitionPiece("fragment", <<"B", "_", "x">>, OnType \o <<"{", "g", "}">>) >>

(***************************************************************************)
(* C12.  The splitter returns the definitions in source order; the content *)
(* of each is the substring of the input from the first character of its   *)
(* keyword through the closing brace at which the brace depth of its body  *)
(* returns to zero, and its kind is that keyword.  "query A{f} fragment    *)
(* B_x on T{g}" gives "query A{f}" and "fragment B_x on T{g}".             *)
(***************************************************************************)
C12_ContentIsExactSubstring ==
    (Called(parsed) /\ parsed.status = "ok") =>
        /\ InSourceOrder(input, parsed.definitions, 0)
        /\ \A i \in 1..Len(parsed.definitions) :
               /\ parsed.definitions[i].type \in {"query", "fragment"}
               /\ KeywordThroughClosingBrace(parsed.definitions[i].type,
                                             parsed.definitions[i].content)
        /\ PlainText(pieces) =>
               /\ Len(parsed.definitions) = Len(DefinitionPieces(pieces))
               /\ \A i \in 1..Len(parsed.definitions) :
                      /\ parsed.definitions[i].content = DefinitionPieces(pieces)[i].chars
                      /\ parsed.definitions[i].type = DefinitionPieces(pieces)[i].type

C12_Witness ==
    /\ pieces = ExampleText
    /\ Str(input) = "query A{f} fragment B_x on T{g}"
    /\ parsed.status = "ok"
    /\ Len(parsed.definitions) = 2
    /\ Str(parsed.definitions[1].content) = "query A{f}"
    /\ parsed.definitions[1].type = "query"
    /\ Str(parsed.definitions[2].content) = "fragment B_x on T{g}"
    /\ parsed.definitions[2].type = "fragment"

\* The body that the first opening brace of chars opens is still open at
\* the end of chars.
BodyOpenAtEnd(chars) ==
    LET braces == {k \in 1..Len(chars) : chars[k] = "{"}
    IN /\ braces # {}
       /\ LET open == CHOOSE k \in braces : \A j \in braces : k <= j
          IN \A k \in open..Len(chars) : BraceDepth(SubSeq(chars, open, k)) > 0

\* The pieces that start a definition whose body the end of the text
\* leaves open, after definitions and keyword-free text only.
OpenPieces(ps) ==
    {k \in 1..Len(ps) :
        /\ PlainText(SubSeq(ps, 1, k - 1))
        /\ ps[k].kind = "open"
        /\ BodyOpenAtEnd(TextOf(SubSeq(ps, k, Len(ps))))}

(***************************************************************************)
(* C13.  When the end of the input is reached while the body of a          *)
(* definition is open, the splitter fails with the unmatched-brace error   *)
(* that names this definition, and returns no list.                        *)
(***************************************************************************)
C13_UnmatchedBraceNamesDefinition ==
    Called(parsed) =>
        \A k \in OpenPieces(pieces) :
            /\ parsed.status = "error"
            /\ parsed.message =
                   "No matching closing brace found for definition " \o Str(pieces[k].name)
            /\ parsed.definitions = <<>>

\* The body of the last definition is open at the end of the text, after a
\* definition that was closed.
C13_Witness ==
    /\ Called(parsed)
    /\ Len(pieces) >= 2
    /\ pieces[1].kind = "definition"
    /\ OpenPieces(pieces) # {}
    /\ parsed.message = "No matching closing brace found for definition D_y"

IsText(ps) == \A k \in 1..Len(ps) : ps[k].kind \in {"definition", "text"}

(***************************************************************************)
(* C14.  The splitter ignores non-definition text: with any text that is   *)
(* not a definition written before, between or after well-formed           *)
(* definitions, it returns the list it returns for the definitions alone,  *)
(* and no error.                                                           *)
(***************************************************************************)
C14_NonDefinitionTextIgnored ==
    (Called(parsed) /\ IsText(pieces)) =>
        /\ parsed.status = "ok"
        /\ parsed = parseGraphQLDefinitions(TextOf(DefinitionPieces(pieces)))

\* The filename the name of a definition of this kind stands for.
ExpectedFilename(type, name) ==
    LET underscores == {k \in 1..Len(name) : name[k] = "_"}
        suffixAt == Len(name) - 4
        baseName ==
            IF type = "query"
            THEN IF suffixAt >= 1 /\ Str(SubSeq(name, suffixAt, Len(name))) = "Query"
                 THEN SubSeq(name, 1, suffixAt - 1)
                 ELSE name
            ELSE IF underscores = {} THEN name
                 ELSE SubSeq(name, 1, (CHOOSE k \in underscores : \A j \in underscores : k <= j) - 1)
    IN Str(baseName) \o ".js"

(***************************************************************************)
(* C15.  The filename of a definition depends on its kind and name only:   *)
(* for a query the name without one trailing "Query" (the whole name when  *)
(* it does not end with "Query"), for a fragment the name before its first *)
(* underscore (the whole name when it has none), followed by ".js"; the    *)
(* case of the name is kept.                                               *)
(***************************************************************************)
C15_FilenameFromKindAndName ==
    (Called(parsed) /\ PlainText(pieces)) =>
        /\ parsed.status = "ok"
        /\ Len(parsed.definitions) = Len(DefinitionPieces(pieces))
        /\ \A i \in 1..Len(parsed.definitions) :
               Str(parsed.definitions[i].filename) =
                   ExpectedFilename(DefinitionPieces(pieces)[i].type,
                                    DefinitionPieces(pieces)[i].name)

\* A fragment with two underscores in its name got the part before the
\* first one.
C15_Witness ==
    /\ parsed.status = "ok"
    /\ Len(pieces) = 1
    /\ pieces[1].type = "fragment"
    /\ pieces[1].name = <<"a", "_", "b", "_", "c">>
    /\ Len(parsed.definitions) = 1
    /\ Str(parsed.definitions[1].filename) = "a.js"

(***************************************************************************)
(* The grouper, mergeDefinitions of lib/graphql-merge.ts.  Filenames and   *)
(* contents are sequences of characters; the backtick and the characters  *)
(* outside ASCII are written by their code points.                         *)
(*                                                                         *)
(* String.prototype.localeCompare compares by the collation of the         *)
(* runtime: canonically equivalent strings are equal; otherwise the base   *)
(* characters decide (white space, punctuation and symbols before digits   *)
(* before letters, case ignored), then the accents, then the case (lower   *)
(* before upper).                                                          *)
(***************************************************************************)
Backtick == "U+0060"

EAcute == "U+00E9"

CombiningAcute == "U+0301"

\* Canonical decomposition of a character.
Decomposition(character) ==
    IF character = EAcute THEN <<"e", CombiningAcute>> ELSE <<character>>

NFD(chars) == Flatten([i \in 1..Len(chars) |-> Decomposition(chars[i])])

\* The base characters in the order of their primary weights; a letter
\* has the weight of its lower case form.
CollationBase ==
    <<"\t", "\n", " ", "_", "-", ",", ";", ":", "!", "?", ".", "'", "\"", "(", ")", "[", "]",
      "{", "}", "@", "*", "/", "\\", "&", "#", "%", Backtick, "^", "+", "<", "=", ">", "|", "~", "$",
      "0", "1", "2", "3", "4", "5", "6", "7", "8", "9",
      "a", "b", "c", "d", "e", "f", "g", "h", "i", "j", "k", "l", "m",
      "n", "o", "p", "q", "r", "s", "t", "u", "v", "w", "x", "y", "z">>

UpperCase ==
    <<"A", "B", "C", "D", "E", "F", "G", "H", "I", "J", "K", "L", "M",
      "N", "O", "P", "Q", "R", "S", "T", "U", "V", "W", "X", "Y", "Z">>

LowerCase ==
    <<"a", "b", "c", "d", "e", "f", "g", "h", "i", "j", "k", "l", "m",
      "n", "o", "p", "q", "r", "s", "t", "u", "v", "w", "x", "y", "z">>

IndexIn(seq, x) == CHOOSE i \in 1..Len(seq) : seq[i] = x

IsUpperCase(character) == \E i \in 1..Len(UpperCase) : UpperCase[i] = character

ToLowerCase(character) ==
    IF IsUpperCase(character) THEN LowerCase[IndexIn(UpperCase, character)] ELSE character

\* The weights of a character at the three levels; a combining accent has
\* no primary weight.
PrimaryWeight(character) ==
    IF character = CombiningAcute THEN 0 ELSE IndexIn(CollationBase, ToLowerCase(character))

SecondaryWeight(character) == IF character = CombiningAcute THEN 1 ELSE 0

TertiaryWeight(character) == IF IsUpperCase(character) THEN 1 ELSE 0

IsBase(character) == character # CombiningAcute

PrimaryKey(chars) ==
    LET base == SelectSeq(NFD(chars), IsBase)
    IN [i \in 1..Len(base) |-> PrimaryWeight(base[i])]

SecondaryKey(chars) == [i \in 1..Len(NFD(chars)) |-> SecondaryWeight(NFD(chars)[i])]

TertiaryKey(chars) ==
    LET base == SelectSeq(NFD(chars), IsBase)
    IN [i \in 1..Len(base) |-> TertiaryWeight(base[i])]

\* Comparison of two sort keys: -1, 0 or 1.
RECURSIVE CompareKeys(_, _)
CompareKeys(k1, k2) ==
    IF k1 = <<>> /\ k2 = <<>> THEN 0
    ELSE IF k1 = <<>> THEN -1
    ELSE IF k2 = <<>> THEN 1
    ELSE IF Head(k1) < Head(k2) THEN -1
    ELSE IF Head(k1) > Head(k2) THEN 1
    ELSE CompareKeys(Tail(k1), Tail(k2))

localeCompare(a, b) ==
    IF CompareKeys(PrimaryKey(a), PrimaryKey(b)) # 0
    THEN CompareKeys(PrimaryKey(a), PrimaryKey(b))
    ELSE IF CompareKeys(SecondaryKey(a), SecondaryKey(b)) # 0
    THEN CompareKeys(SecondaryKey(a), SecondaryKey(b))
    ELSE CompareKeys(TertiaryKey(a), TertiaryKey(b))

\* The filenames that name a property acc = {} inherits from
\* Object.prototype.
InheritedFilenames ==
    { <<"c", "o", "n", "s", "t", "r", "u", "c", "t", "o", "r">>,
      <<"t", "o", "S", "t", "r", "i", "n", "g">>,
      <<"t", "o", "L", "o", "c", "a", "l", "e", "S", "t", "r", "i", "n", "g">>,
      <<"v", "a", "l", "u", "e", "O", "f">>,
      <<"h", "a", "s", "O", "w", "n", "P", "r", "o", "p", "e", "r", "t", "y">>,
      <<"i", "s", "P", "r", "o", "t", "o", "t", "y", "p", "e", "O", "f">>,
      <<"p", "r", "o", "p", "e", "r", "t", "y", "I", "s", "E", "n", "u", "m", "e", "r", "a", "b", "l", "e">>,
      <<"_", "_", "p", "r", "o", "t", "o", "_", "_">>,
      <<"_", "_", "d", "e", "f", "i", "n", "e", "G", "e", "t", "t", "e", "r", "_", "_">>,
      <<"_", "_", "d", "e", "f", "i", "n", "e", "S", "e", "t", "t", "e", "r", "_", "_">>,
      <<"_", "_", "l", "o", "o", "k", "u", "p", "G", "e", "t", "t", "e", "r", "_", "_">>,
      <<"_", "_", "l", "o", "o", "k", "u", "p", "S", "e", "t", "t", "e", "r", "_", "_">> }

\* The TypeError of a call of push on a value that has none.
PushIsNotAFunction == "acc[def.filename].push is not a function"

\* The outcome of a step of the reduction: the groups, or the error thrown.
Grouped(groups) == [error |-> "", groups |-> groups]

GroupThrown(message) == [error |-> message, groups |-> <<>>]

\* A step that leaves out a definition the group already holds.
GroupStepSkippingRepeated(acc, def) ==
    LET same == {i \in 1..Len(acc) : acc[i].filename = def.filename}
    IN IF same # {}
       THEN LET i == CHOOSE k \in same : TRUE
            IN IF \E j \in 1..Len(acc[i].defs) : acc[i].defs[j] = def THEN Grouped(acc)
               ELSE Grouped([acc EXCEPT ![i].defs = Append(@, def)])
       ELSE Grouped(CreateProperty(acc,
                                   OwnKeyPlace([k \in 1..Len(acc) |-> acc[k].filename],
                                               def.filename),
                                   [filename |-> def.filename, defs |-> <<def>>]))

\* (acc[def.filename] ??= []).push(def): the groups as the entries of acc,
\* in the order of its own properties.  acc is a plain object:
\* for a filename that names an inherited property, acc[def.filename] is
\* that property, which is not nullish and has no push.
GroupStep(acc, def) ==
    LET same == {i \in 1..Len(acc) : acc[i].filename = def.filename}
    IN IF same # {}
       THEN LET i == CHOOSE k \in same : TRUE
            IN Grouped([acc EXCEPT ![i].defs = Append(@, def)])
       ELSE IF def.filename \in InheritedFilenames THEN GroupThrown(PushIsNotAFunction)
       ELSE Grouped(CreateProperty(acc,
                                   OwnKeyPlace([k \in 1..Len(acc) |-> acc[k].filename],
                                               def.filename),
                                   [filename |-> def.filename, defs |-> <<def>>]))

\* definitions.reduce(..., {}): the groups, or the error of the first step
\* that throws.
RECURSIVE Reduce(_, _)
Reduce(definitions, acc) ==
    IF definitions = <<>> THEN Grouped(acc)
    ELSE LET step == GroupStep(acc, Head(definitions))
         IN IF step.error # "" THEN step
            ELSE Reduce(Tail(definitions), step.groups)

\* ([fileA], [fileB]) => fileA.localeCompare(fileB)
CompareFiles(a, b) == localeCompare(a.filename, b.filename)

\* The comparator of defs.sort.
CompareDefinitions(a, b) ==
    IF a.type = b.type THEN localeCompare(a.content, b.content)
    ELSE IF a.type = "query" THEN -1 ELSE 1

\* Array.prototype.sort is stable: an element goes before the first of
\* the elements sorted so far that compares greater.
RECURSIVE InsertFile(_, _)
InsertFile(sorted, x) ==
    IF sorted = <<>> THEN <<x>>
    ELSE IF CompareFiles(Head(sorted), x) > 0 THEN <<x>> \o sorted
    ELSE <<Head(sorted)>> \o InsertFile(Tail(sorted), x)

RECURSIVE SortFiles(_)
SortFiles(groups) ==
    IF groups = <<>> THEN <<>>
    ELSE InsertFile(SortFiles(SubSeq(groups, 1, Len(groups) - 1)), groups[Len(groups)])

RECURSIVE InsertDefinition(_, _)
InsertDefinition(sorted, x) ==
    IF sorted = <<>> THEN <<x>>
    ELSE IF CompareDefinitions(Head(sorted), x) > 0 THEN <<x>> \o sorted
    ELSE <<Head(sorted)>> \o InsertDefinition(Tail(sorted), x)

RECURSIVE SortDefinitions(_)
SortDefinitions(defs) ==
    IF defs = <<>> THEN <<>>
    ELSE InsertDefinition(SortDefinitions(SubSeq(defs, 1, Len(defs) - 1)), defs[Len(defs)])

\* `graphql\`${def.content}\``
Wrap(content) == <<"g", "r", "a", "p", "h", "q", "l", Backtick>> \o content \o <<Backtick>>

\* Array.prototype.join
RECURSIVE JoinChars(_, _)
JoinChars(parts, separator) ==
    IF parts = <<>> THEN <<>>
    ELSE IF Len(parts) = 1 THEN parts[1]
    ELSE parts[1] \o separator \o JoinChars(Tail(parts), separator)

MergedDefinition(filename, defs) ==
    LET sorted == SortDefinitions(defs)
    IN [filename |-> filename,
        content |-> JoinChars([i \in 1..Len(sorted) |-> Wrap(sorted[i].content)], <<"\n">>)]

mergeDefinitions(definitions) ==
    LET reduced == Reduce(definitions, <<>>)
        groups == SortFiles(reduced.groups)
    IN IF reduced.error # "" THEN Failure(reduced.error)
       ELSE Success([i \in 1..Len(groups) |->
                        MergedDefinition(groups[i].filename, groups[i].defs)])

(***************************************************************************)
(* The lists handed to the grouper: up to MaxEntries definitions as the    *)
(* splitter returns them, among them filenames and contents that differ in *)
(* case, in a punctuation character against a letter, and in the form of   *)
(* an accented character only.                                             *)
(***************************************************************************)
MaxEntries == 3

Sample(type, name, rest) ==
    Definition(type, Filename(type, name), Keyword(type) \o <<" ">> \o name \o rest)

Samples ==
    { Sample("query", <<"a">> \o QuerySuffix, <<"{", "f", "}">>),
      Sample("fragment", <<"B", "_", "x">>, OnType \o <<"{", "g", "}">>),
      Sample("query", Foo \o QuerySuffix, <<"{", "f", "}">>),
      Sample("query", Foo \o QuerySuffix, <<"{", "F", "}">>),
      Sample("query", Foo, <<"{", "f", "}">>),
      Sample("fragment", Foo \o <<"_", "u", "s", "e", "r">>, OnType \o <<"{", "g", "}">>),
      Sample("fragment", Foo \o <<"_", "x">>, OnType \o <<"{", "#", EAcute, "\n", "g", "}">>),
      Sample("fragment", Foo \o <<"_", "x">>,
             OnType \o <<"{", "#", "e", CombiningAcute, "\n", "g", "}">>) }

EntryLists == {<<>>} \cup SeqsUpTo(Samples, MaxEntries)

GroupInit ==
    /\ entries \in EntryLists
    /\ files = NotCalled
    /\ InlinerIdle /\ SplitterIdle /\ TabsIdle /\ EditorIdle

Merge ==
    /\ files.status = "none"
    /\ files' = mergeDefinitions(entries)
    /\ UNCHANGED entries
    /\ UNCHANGED <<inlinerVars, splitterVars, tabVars, editorVars>>

GroupNext == Merge

GroupSpec == GroupInit /\ [][GroupNext]_vars

(***************************************************************************)
(* Vocabulary of the grouper's properties.  Ordinal order is the order of  *)
(* the code units.                                                         *)
(***************************************************************************)
CodeUnitOrder ==
    <<"\t", "\n", " ", "!", "\"", "#", "$", "%", "&", "'", "(", ")", "*", "+", ",", "-", ".",
      "/", "0", "1", "2", "3", "4", "5", "6", "7", "8", "9", ":", ";", "<", "=", ">", "?", "@",
      "A", "B", "C", "D", "E", "F", "G", "H", "I", "J", "K", "L", "M",
      "N", "O", "P", "Q", "R", "S", "T", "U", "V", "W", "X", "Y", "Z",
      "[", "\\", "]", "^", "_", Backtick,
      "a", "b", "c", "d", "e", "f", "g", "h", "i", "j", "k", "l", "m",
      "n", "o", "p", "q", "r", "s", "t", "u", "v", "w", "x", "y", "z",
      "{", "|", "}", "~", EAcute, CombiningAcute>>

CodeUnits(chars) == [i \in 1..Len(chars) |-> IndexIn(CodeUnitOrder, chars[i])]

OrdinalLess(a, b) == CompareKeys(CodeUnits(a), CodeUnits(b)) < 0

OrdinalLessOrEqual(a, b) == CompareKeys(CodeUnits(a), CodeUnits(b)) <= 0

Filenames(list) == {list[i].filename : i \in 1..Len(list)}

\* The definitions of the list that have the filename, in list order.
WithFilename(list, filename) ==
    LET Has(def) == def.filename = filename
    IN SelectSeq(list, Has)

\* The sequences that hold the elements of list, each as often as list.
Arrangements(list) ==
    { [i \in 1..Len(list) |-> list[f[i]]] :
        f \in {g \in [1..Len(list) -> 1..Len(list)] :
                  \A i, j \in 1..Len(list) : i # j => g[i] # g[j]} }

\* The entries wrapped as graphql`...`, with one newline between two.
WrappedAndJoined(list) ==
    Flatten([i \in 1..Len(list) |->
                (IF i > 1 THEN <<"\n">> ELSE <<>>)
                    \o <<"g", "r", "a", "p", "h", "q", "l", Backtick>>
                    \o list[i].content \o <<Backtick>>])

\* Queries before fragments, and the contents of one type in ascending
\* ordinal order.
OrdinalOrder(list) ==
    \A i, j \in 1..Len(list) :
        i < j =>
            /\ ~(list[i].type = "fragment" /\ list[j].type = "query")
            /\ list[i].type = list[j].type =>
                   OrdinalLessOrEqual(list[i].content, list[j].content)

(***************************************************************************)
(* C16.  The filenames of the grouper's output are pairwise distinct, are  *)
(* the filenames of the input, and are in ascending ordinal order.         *)
(***************************************************************************)
C16_FilenamesDistinctAndOrdinal ==
    Called(files) =>
        /\ \A i, j \in 1..Len(files.definitions) :
               i # j => files.definitions[i].filename # files.definitions[j].filename
        /\ Filenames(files.definitions) = Filenames(entries)
        /\ \A i, j \in 1..Len(files.definitions) :
               i < j => OrdinalLess(files.definitions[i].filename,
                                    files.definitions[j].filename)

(***************************************************************************)
(* C17.  In each group of the output the queries precede the fragments,    *)
(* and the entries of one type are in ascending ordinal order of their     *)
(* content; the query FooQuery and the fragment Foo_user are in one file,  *)
(* the query first.                                                        *)
(***************************************************************************)
C17_QueriesFirstThenOrdinal ==
    Called(files) =>
        \A i \in 1..Len(files.definitions) :
            \E list \in Arrangements(WithFilename(entries, files.definitions[i].filename)) :
                /\ OrdinalOrder(list)
                /\ files.definitions[i].content = WrappedAndJoined(list)

(***************************************************************************)
(* C18.  The output of the grouper does not depend on the order of its     *)
(* input: every permutation of the input list gives the same list of       *)
(* files, with the same contents.                                          *)
(***************************************************************************)
C18_InputOrderIndependent ==
    Called(files) =>
        \A list \in Arrangements(entries) : mergeDefinitions(list) = files

(***************************************************************************)
(* C19.  The content of each group is its entries, each wrapped as         *)
(* graphql`<content>`, with exactly one newline between two and none       *)
(* before the first or after the last; every entry of the input is once in *)
(* the output, in the group of its filename; an empty input gives an empty *)
(* output.                                                                 *)
(***************************************************************************)
C19_WrappedJoinedOnce ==
    Called(files) =>
        /\ entries = <<>> => files.definitions = <<>>
        /\ Filenames(files.definitions) = Filenames(entries)
        /\ Len(files.definitions) = Cardinality(Filenames(entries))
        /\ \A i \in 1..Len(files.definitions) :
               \E list \in Arrangements(WithFilename(entries, files.definitions[i].filename)) :
                   files.definitions[i].content = WrappedAndJoined(list)

\* The same definition twice and another one of the same file: a group of
\* three entries.
C19_Witness ==
    /\ Called(files)
    /\ Len(entries) = 3
    /\ entries[1] = entries[3]
    /\ entries[1] # entries[2]
    /\ Len(files.definitions) = 1
    /\ Str(files.definitions[1].filename) = "Foo.js"

(***************************************************************************)
(* The tab store, createTabStore of lib/stores/tab-store.svelte.ts.        *)
(*                                                                         *)
(* storage is the list of the items set, each a key and a value.  The      *)
(* text JSON.stringify writes is a sequence of tokens: punctuation and     *)
(* string literals.  A tab is the list of the own properties of its       *)
(* object, each a key and a value, in the order in which they were         *)
(* created.                                                                *)
(***************************************************************************)
DEFAULT_QUERY ==
    "query UserQuery($id: ID!) {\n  user(id: $id) {\n    ...UserFragment\n    friends {\n"
        \o "      ...UserFragment\n    }\n  }\n}\nfragment UserFragment on User {\n"
        \o "  id\n  name\n  age\n}"

TABS_STORAGE_KEY == "graphql-inliner-tabs"

ACTIVE_TAB_STORAGE_KEY == "graphql-inliner-active-tab"

Member(k, v) == [k |-> k, v |-> v]

\* The object literal of createTab.
Tab(id, title, operationText, optimizedOperationText) ==
    << Member("id", id), Member("title", title), Member("operationText", operationText),
       Member("optimizedOperationText", optimizedOperationText) >>

\* The value of a property the object does not have: undefined, which is
\* no string.
UndefinedMember == <<"undefined">>

IsUndefined(value) == UndefinedMember = value

\* a === b, of strings and undefined
StrictEquals(a, b) ==
    IF IsUndefined(a) \/ IsUndefined(b) THEN IsUndefined(a) /\ IsUndefined(b) ELSE a = b

\* tab[key]
TabGet(tab, key) ==
    LET own == {i \in 1..Len(tab) : tab[i].k = key}
    IN IF own # {} THEN tab[CHOOSE i \in own : TRUE].v ELSE UndefinedMember

\* tab[key] = value: an existing property keeps its place, a new one is
\* created at its place in the property order (after the others, unless
\* its key is an array index).
TabSet(tab, key, value) ==
    IF \E i \in 1..Len(tab) : tab[i].k = key
    THEN [i \in 1..Len(tab) |-> IF tab[i].k = key THEN Member(key, value) ELSE tab[i]]
    ELSE CreateProperty(tab, OwnKeyPlace([i \in 1..Len(tab) |-> tab[i].k], key),
                        Member(key, value))

\* A value that || replaces by its right operand.
Falsy(value) == IsUndefined(value) \/ value = ""

\* Storage (MockStorage): the items are the own properties of a plain
\* object.  getItem is this.store[key] || null: the value last set for the
\* key, null when that value is the empty string or undefined; for a key never set, the
\* property the object inherits from Object.prototype when the key names
\* one, and null otherwise.
Null == [present |-> FALSE, value |-> ""]

\* A member of Object.prototype, which is not a string.
InheritedProperty(key) == [inherited |-> key]

getItem(store, key) ==
    LET items == {i \in 1..Len(store) : store[i].key = key}
    IN IF items # {}
       THEN LET value == store[CHOOSE i \in items : TRUE].value
            IN IF Falsy(value) THEN Null ELSE [present |-> TRUE, value |-> value]
       ELSE IF key \in ObjectPrototypeProperties
            THEN [present |-> TRUE, value |-> InheritedProperty(key)]
       ELSE Null

\* this.store[key] = value: the key __proto__ goes to the inherited setter,
\* which ignores a string and creates no item; an item the store has keeps
\* its place, a new one is created at its place in the property order.
setItem(store, key, value) ==
    IF key = "__proto__" THEN store
    ELSE IF \E i \in 1..Len(store) : store[i].key = key
    THEN [i \in 1..Len(store) |->
             IF store[i].key = key THEN [key |-> key, value |-> value] ELSE store[i]]
    ELSE CreateProperty(store, OwnKeyPlace([i \in 1..Len(store) |-> store[i].key], key),
                        [key |-> key, value |-> value])

\* MockStorage.clear
clear(store) == <<>>

\* JSON.stringify of the tab list: the own properties of each tab in the
\* order of the object, a property whose value is undefined left out.
Punctuation(character) == [token |-> "punctuation", value |-> character]

StringLiteral(string) == [token |-> "string", value |-> string]

RECURSIVE JoinTokens(_, _)
JoinTokens(parts, separator) ==
    IF parts = <<>> THEN <<>>
    ELSE IF Len(parts) = 1 THEN parts[1]
    ELSE parts[1] \o <<separator>> \o JoinTokens(Tail(parts), separator)

JSONstringifyTab(tab) ==
    LET Defined(member) == ~IsUndefined(member.v)
        written == SelectSeq(tab, Defined)
    IN <<Punctuation("{")>>
           \o JoinTokens([i \in 1..Len(written) |->
                             <<StringLiteral(written[i].k), Punctuation(":"),
                               StringLiteral(written[i].v)>>],
                         Punctuation(","))
           \o <<Punctuation("}")>>

JSONstringifyTabs(list) ==
    <<Punctuation("[")>>
        \o JoinTokens([i \in 1..Len(list) |-> JSONstringifyTab(list[i])], Punctuation(","))
        \o <<Punctuation("]")>>

\* JSON.parse: the members of an object from position pos on, until its
\* closing brace, then the elements of the array, until its closing
\* bracket.  The properties are created in the order of the text, each at
\* its place in the property order (array indices first, in ascending
\* order); a key written twice keeps its place and its last value.
RECURSIVE ParseMembers(_, _, _)
ParseMembers(tokens, pos, object) ==
    IF tokens[pos] = Punctuation("}") THEN [object |-> object, next |-> pos + 1]
    ELSE ParseMembers(tokens,
                      IF tokens[pos + 3] = Punctuation(",") THEN pos + 4 ELSE pos + 3,
                      TabSet(object, tokens[pos].value, tokens[pos + 2].value))

RECURSIVE ParseElements(_, _, _)
ParseElements(tokens, pos, list) ==
    IF tokens[pos] = Punctuation("]") THEN list
    ELSE IF tokens[pos] = Punctuation(",") THEN ParseElements(tokens, pos + 1, list)
    ELSE LET element == ParseMembers(tokens, pos + 1, <<>>)
         IN ParseElements(tokens, element.next, Append(list, element.object))

JSONparseTabs(tokens) == ParseElements(tokens, 2, <<>>)

\* nanoid(): an identifier no tab had before.
nanoid(counter) == "id" \o ToString(counter)

\* loadFromStorage, for a storage whose getItem does not throw.
loadFromStorage(store) ==
    LET storedTabs == getItem(store, TABS_STORAGE_KEY)
        storedActiveTabId == getItem(store, ACTIVE_TAB_STORAGE_KEY)
        loaded == IF storedTabs.present THEN JSONparseTabs(storedTabs.value) ELSE <<>>
        stored == IF storedActiveTabId.present THEN storedActiveTabId.value ELSE ""
        some == \E i \in 1..Len(loaded) : StrictEquals(TabGet(loaded[i], "id"), stored)
    IN [tabs |-> loaded,
        activeTabId |-> IF ~some /\ Len(loaded) > 0 THEN TabGet(loaded[1], "id") ELSE stored]

\* createTab(title, withDefaultContent), in a store that holds list.
createTab(list, counter, title, withDefaultContent) ==
    Tab(nanoid(counter),
        IF title # "" THEN title ELSE "Query " \o ToString(Len(list) + 1),
        IF withDefaultContent THEN DEFAULT_QUERY ELSE "",
        "")

\* The state createTabStore starts with: tabs, activeTabId, and whether
\* nanoid was called.
createTabStore(store, counter) ==
    LET initial == loadFromStorage(store)
        initialTabs == IF Len(initial.tabs) # 0 THEN initial.tabs
                       ELSE <<createTab(<<>>, counter, "Example Query", TRUE)>>
    IN [tabs |-> initialTabs,
        activeTabId |-> IF ~Falsy(initial.activeTabId) THEN initial.activeTabId
                        ELSE IF ~Falsy(TabGet(initialTabs[1], "id"))
                        THEN TabGet(initialTabs[1], "id")
                        ELSE "",
        created |-> Len(initial.tabs) = 0]

\* tabs.findIndex((tab) => tab.id === tabId): -1 when there is none.
findIndex(list, tabId) ==
    LET found == {i \in 1..Len(list) : StrictEquals(TabGet(list[i], "id"), tabId)}
    IN IF found = {} THEN -1 ELSE (CHOOSE i \in found : \A j \in found : i <= j) - 1

\* A splice that removes the first tab whatever the index.
spliceFirst(list, index) == Tail(list)

\* tabs.splice(index, 1)
splice(list, index) == SubSeq(list, 1, index) \o SubSeq(list, index + 2, Len(list))

\* tabs.find((tab) => tab.id === activeTabId) || tabs[0], of a store that
\* holds list and id; no tab (undefined) when the list is empty.
NoTab == [defined |-> FALSE, tab |-> <<>>]

activeTabOf(list, id) ==
    IF findIndex(list, id) # -1 THEN [defined |-> TRUE, tab |-> list[findIndex(list, id) + 1]]
    ELSE IF list # <<>> THEN [defined |-> TRUE, tab |-> list[1]]
    ELSE NoTab

activeTab == activeTabOf(tabs, activeTabId)

(***************************************************************************)
(* The tab store's state machine.  A session creates the store from the    *)
(* storage the sessions before it wrote; the $effect that saves the state  *)
(* is pending from the creation of the store and after every change, until *)
(* it is flushed.  The callers (TabBar, EditorPanel) pass the ids of tabs  *)
(* of the store.                                                           *)
(***************************************************************************)
MaxTabs == 3

MaxIds == 3

MaxSessions == 2

Titles == {"", "Renamed"}

Contents == {<<"query { a }", "query { a }">>}

TabIds == {TabGet(tabs[i], "id") : i \in 1..Len(tabs)}

\* The last call made on the store, when it was closeTab: the place of the
\* tab it named, and whether that tab was the active one.
NotClose == [index |-> 0, active |-> FALSE]


TabInit ==
    /\ storage = <<>>
    /\ tabs = createTabStore(<<>>, 0).tabs
    /\ activeTabId = createTabStore(<<>>, 0).activeTabId
    /\ nanoidCounter = 1
    /\ effectPending = TRUE
    /\ session = 1
    /\ lastClose = NotClose
    /\ InlinerIdle /\ SplitterIdle /\ GrouperIdle /\ EditorIdle

addTab(withDefaultContent) ==
    /\ Len(tabs) < MaxTabs
    /\ nanoidCounter < MaxIds
    /\ LET newTab == createTab(tabs, nanoidCounter, "", withDefaultContent)
       IN /\ tabs' = Append(tabs, newTab)
          /\ activeTabId' = TabGet(newTab, "id")
    /\ nanoidCounter' = nanoidCounter + 1
    /\ effectPending' = TRUE
    /\ lastClose' = NotClose
    /\ UNCHANGED <<storage, session>>
    /\ UNCHANGED <<inlinerVars, splitterVars, grouperVars, editorVars>>

closeTab(tabId) ==
    /\ LET index == findIndex(tabs, tabId)
       IN /\ activeTabId' =
                 IF StrictEquals(activeTabId, tabId)
                 THEN IF index > 0 THEN TabGet(tabs[index], "id")
                      ELSE IF Len(tabs) > 1 THEN TabGet(tabs[2], "id")
                      ELSE activeTabId
                 ELSE activeTabId
          /\ tabs' = IF index # -1 THEN splice(tabs, index) ELSE tabs
          /\ lastClose' = [index |-> index + 1, active |-> StrictEquals(activeTabId, tabId)]
    /\ effectPending' = (effectPending \/ tabs' # tabs \/ activeTabId' # activeTabId)
    /\ UNCHANGED <<storage, nanoidCounter, session>>
    /\ UNCHANGED <<inlinerVars, splitterVars, grouperVars, editorVars>>

setActiveTab(tabId) ==
    /\ activeTabId' = tabId
    /\ effectPending' = (effectPending \/ activeTabId' # activeTabId)
    /\ lastClose' = NotClose
    /\ UNCHANGED <<tabs, storage, nanoidCounter, session>>
    /\ UNCHANGED <<inlinerVars, splitterVars, grouperVars, editorVars>>

updateTabTitle(tabId, title) ==
    /\ LET index == findIndex(tabs, tabId)
       IN tabs' = IF index # -1
                  THEN [tabs EXCEPT ![index + 1] =
                            TabSet(@, "title", IF title # "" THEN title ELSE TabGet(@, "title"))]
                  ELSE tabs
    /\ effectPending' = (effectPending \/ tabs' # tabs)
    /\ lastClose' = NotClose
    /\ UNCHANGED <<activeTabId, storage, nanoidCounter, session>>
    /\ UNCHANGED <<inlinerVars, splitterVars, grouperVars, editorVars>>

updateTabContent(tabId, operationText, optimizedOperationText) ==
    /\ LET index == findIndex(tabs, tabId)
       IN tabs' = IF index # -1
                  THEN [tabs EXCEPT ![index + 1] =
                            TabSet(TabSet(@, "operationText", operationText),
                                   "optimizedOperationText", optimizedOperationText)]
                  ELSE tabs
    /\ effectPending' = (effectPending \/ tabs' # tabs)
    /\ lastClose' = NotClose
    /\ UNCHANGED <<activeTabId, storage, nanoidCounter, session>>
    /\ UNCHANGED <<inlinerVars, splitterVars, grouperVars, editorVars>>

\* The $effect runs: both items are set.
Flush ==
    /\ effectPending
    /\ storage' = setItem(setItem(storage, TABS_STORAGE_KEY, JSONstringifyTabs(tabs)),
                          ACTIVE_TAB_STORAGE_KEY, activeTabId)
    /\ effectPending' = FALSE
    /\ lastClose' = NotClose
    /\ UNCHANGED <<tabs, activeTabId, nanoidCounter, session>>
    /\ UNCHANGED <<inlinerVars, splitterVars, grouperVars, editorVars>>

\* The next session: createTabStore on the storage as it was left.
NewSession ==
    /\ ~effectPending
    /\ session < MaxSessions
    /\ LET store == createTabStore(storage, nanoidCounter)
       IN /\ store.created => nanoidCounter < MaxIds
          /\ tabs' = store.tabs
          /\ activeTabId' = store.activeTabId
          /\ nanoidCounter' = IF store.created THEN nanoidCounter + 1 ELSE nanoidCounter
    /\ effectPending' = TRUE
    /\ session' = session + 1
    /\ lastClose' = NotClose
    /\ UNCHANGED storage
    /\ UNCHANGED <<inlinerVars, splitterVars, grouperVars, editorVars>>

TabNext ==
    \/ \E withDefaultContent \in BOOLEAN : addTab(withDefaultContent)
    \/ \E tabId \in TabIds : closeTab(tabId)
    \/ \E tabId \in TabIds : setActiveTab(tabId)
    \/ \E tabId \in TabIds, title \in Titles : updateTabTitle(tabId, title)
    \/ \E tabId \in TabIds, content \in Contents : updateTabContent(tabId, content[1], content[2])
    \/ Flush
    \/ NewSession

TabSpec == TabInit /\ [][TabNext]_vars


(***************************************************************************)
(* C20: tab state is saved between sessions.  Once the effect has run      *)
(* after any sequence of addTab, closeTab, setActiveTab, updateTabTitle    *)
(* and updateTabContent, the storage holds the current tab list and the    *)
(* current activeTabId, and a store created from that storage has the same *)
(* tabs (ids, titles and texts, in order) and the same active tab.         *)
(***************************************************************************)
Saved ==
    /\ getItem(storage, TABS_STORAGE_KEY) = [present |-> TRUE, value |-> JSONstringifyTabs(tabs)]
    /\ getItem(storage, ACTIVE_TAB_STORAGE_KEY) = [present |-> TRUE, value |-> activeTabId]

Restored ==
    LET next == createTabStore(storage, nanoidCounter)
    IN /\ next.tabs = tabs
       /\ activeTabOf(next.tabs, next.activeTabId) = activeTab

C20_TabsSavedBetweenSessions == ~effectPending => Saved /\ Restored

(***************************************************************************)
(* C21: closeTab(id) removes exactly the tab with that id and keeps the    *)
(* other tabs in order; when the closed tab was the active one, the tab    *)
(* just before it becomes active, or, if it was the first tab and other    *)
(* tabs exist, the tab that followed it; when the closed tab was not the   *)
(* active one, activeTabId is unchanged.  A step that shortens the tab     *)
(* list is a closeTab step.                                                *)
(***************************************************************************)
Without(list, i) == [j \in 1..(Len(list) - 1) |-> IF j < i THEN list[j] ELSE list[j + 1]]

ClosedAt(i) ==
    /\ tabs' = Without(tabs, i)
    /\ activeTabId = TabGet(tabs[i], "id") /\ i > 1 => activeTabId' = TabGet(tabs[i - 1], "id")
    /\ activeTabId = TabGet(tabs[i], "id") /\ i = 1 /\ Len(tabs) > 1 =>
           activeTabId' = TabGet(tabs[2], "id")
    /\ activeTabId # TabGet(tabs[i], "id") => activeTabId' = activeTabId

C21_CloseTabRemovesAndReactivates ==
    [][Len(tabs') < Len(tabs) =>
         \E i \in 1..Len(tabs) :
             /\ TabGet(tabs[i], "id") \notin {TabGet(tabs'[j], "id") : j \in 1..Len(tabs')}
             /\ ClosedAt(i)]_vars

\* Of three tabs the second was closed while it was the active one: the
\* first and the third are left, in that order, and the first, the tab
\* just before the closed one, is active.
C21_Witness ==
    /\ lastClose = [index |-> 2, active |-> TRUE]
    /\ Len(tabs) = 2
    /\ TabGet(tabs[1], "id") = nanoid(0) /\ TabGet(tabs[2], "id") = nanoid(2)
    /\ activeTabId = nanoid(0)

\* The text ends after the keyword and the name of a definition and before
\* any opening brace: a keyword and a name follow definitions and
\* keyword-free text, and no brace is opened from there to the end.
HeaderOpenAtEnd(ps) ==
    \E k \in 1..Len(ps) :
        /\ PlainText(SubSeq(ps, 1, k - 1))
        /\ ps[k].kind = "headless"
        /\ \A j \in 1..Len(TextOf(SubSeq(ps, k, Len(ps)))) :
               TextOf(SubSeq(ps, k, Len(ps)))[j] # "{"

MalformedDefinition(message) ==
    \E index \in 0..Len(input) : message = CouldNotParseName(index)

UnmatchedBrace(message) ==
    \E from \in 1..Len(input), to \in 1..Len(input) :
        from <= to /\ message = NoMatchingBrace(SubSeq(input, from, to))

(***************************************************************************)
(* C22.  The splitter ends in one of three ways: success with the whole    *)
(* input scanned and no definition begun, the malformed-definition error,  *)
(* or the unmatched-brace error.  An input that ends after the keyword and *)
(* the name of a definition and before any opening brace gives no success. *)
(***************************************************************************)
C22_EndsInSuccessOrError ==
    Called(parsed) =>
        /\ \/ parsed.status = "ok" /\ ~HeaderOpenAtEnd(pieces)
           \/ parsed.status = "error" /\ MalformedDefinition(parsed.message)
           \/ parsed.status = "error" /\ UnmatchedBrace(parsed.message)

\* The offset at which piece k of ps starts.
OffsetOf(ps, k) == Len(TextOf(SubSeq(ps, 1, k - 1)))

\* The first offset from index on at which chars has no whitespace.
AfterWhitespace(chars, index) ==
    CHOOSE n \in index..Len(chars) :
        /\ \A j \in index..(n - 1) : chars[j + 1] \in Whitespace
        /\ n < Len(chars) => chars[n + 1] \notin Whitespace

\* The longest run of letters, digits and underscores of chars at index.
MaximalRun(chars, index) ==
    LET n == CHOOSE n \in index..Len(chars) :
                 /\ \A j \in index..(n - 1) : chars[j + 1] \in NameCharacters
                 /\ n < Len(chars) => chars[n + 1] \notin NameCharacters
    IN SubSeq(chars, index + 1, n)

\* Where the name of the definition that piece k of ps begins is looked for.
NameOffset(ps, k) ==
    AfterWhitespace(TextOf(ps), OffsetOf(ps, k) + Len(Keyword(ps[k].type)))

\* The pieces at which the splitter, scanning, finds a keyword: those after
\* definitions and keyword-free text only.
KeywordPieces(ps) ==
    {k \in 1..Len(ps) : PlainText(SubSeq(ps, 1, k - 1)) /\ ps[k].kind # "text"}

(***************************************************************************)
(* C23.  When a keyword begins at the scan position and, after the         *)
(* whitespace that follows it, the next character is no letter, digit or   *)
(* underscore, or the input ends, the splitter fails with the              *)
(* malformed-definition error; otherwise the name of the definition is the *)
(* longest run of identifier characters there (the unmatched-brace error   *)
(* and the filename show it).                                              *)
(***************************************************************************)
C23_NameIsMaximalRunOrMalformed ==
    Called(parsed) =>
        \A k \in KeywordPieces(pieces) :
            LET at == NameOffset(pieces, k)
                name == MaximalRun(input, at)
            IN /\ name = <<>> =>
                      parsed = Failure("Could not parse definition name at position "
                                           \o ToString(at))
               /\ name # <<>> =>
                      /\ (k = Len(pieces) /\ pieces[k].kind = "open") =>
                             parsed = Failure("No matching closing brace found for definition "
                                                  \o Str(name))
                      /\ (k = Len(pieces) /\ pieces[k].kind = "definition") =>
                             /\ parsed.status = "ok"
                             /\ Str(parsed.definitions[Len(parsed.definitions)].filename)
                                    = ExpectedFilename(pieces[k].type, name)

\* The input ended in whitespace after the keyword, and the error names
\* the end of the input.
C23_Witness ==
    /\ Str(input) = "query\n\t"
    /\ parsed = Failure("Could not parse definition name at position 7")

\* The rounds that pushed a definition.
IsDefinitionRound(round) == round.startDefinition # -1

DefinitionRounds(chars) == SelectSeq(ScanRounds(chars), IsDefinitionRound)

\* The brace at offset end closes the body that the first opening brace
\* from offset start on opens.
ClosesBody(chars, start, end) ==
    LET braces == {k \in (start + 1)..(end + 1) : chars[k] = "{"}
    IN /\ braces # {}
       /\ chars[end + 1] = "}"
       /\ LET open == CHOOSE k \in braces : \A j \in braces : k <= j
          IN /\ BraceDepth(SubSeq(chars, open, end + 1)) = 0
             /\ \A k \in open..end : BraceDepth(SubSeq(chars, open, k)) > 0

(***************************************************************************)
(* C24.  Inside a body only braces count: a keyword written inside a body  *)
(* starts no definition, the scan for keywords resumes at the character    *)
(* after the closing brace that matches, the scan position grows at every  *)
(* round of the loop, and the contents returned are substrings of the      *)
(* input that do not overlap and start at growing offsets.                 *)
(***************************************************************************)
C24_OnlyBracesCountInsideBody ==
    Called(parsed) =>
        LET rounds == ScanRounds(input)
            found == DefinitionRounds(input)
        IN /\ \A i \in 1..Len(rounds) :
                  /\ rounds[i].at < rounds[i].next
                  /\ i > 1 => rounds[i].at = rounds[i - 1].next
           /\ \A i \in 1..Len(found) :
                  /\ ClosesBody(input, found[i].startDefinition, found[i].endBlockIndex)
                  /\ found[i].next = found[i].endBlockIndex + 1
                  /\ \A j \in 1..Len(rounds) :
                         ~(found[i].startDefinition < rounds[j].at
                             /\ rounds[j].at <= found[i].endBlockIndex)
                  /\ i > 1 => found[i - 1].endBlockIndex < found[i].startDefinition
           /\ parsed.status = "ok" =>
                  /\ Len(parsed.definitions) = Len(found)
                  /\ \A i \in 1..Len(found) :
                         parsed.definitions[i].content =
                             SubSeq(input, found[i].startDefinition + 1,
                                    found[i].endBlockIndex + 1)
           /\ PlainText(pieces) =>
                  /\ parsed.status = "ok"
                  /\ Len(parsed.definitions) = Len(DefinitionPieces(pieces))

\* A query whose body holds the keyword "query" was followed by another
\* definition, and two definitions were returned.
C24_Witness ==
    /\ Str(input) = "query G{query H{f}}query A{f}"
    /\ parsed.status = "ok"
    /\ Len(parsed.definitions) = 2
    /\ Str(parsed.definitions[1].content) = "query G{query H{f}}"
    /\ Str(parsed.definitions[2].content) = "query A{f}"

\* Definition i of document is a fragment that a later definition of the
\* document defines again.
DefinedAgain(document, i) ==
    /\ document[i].kind = "FragmentDefinition"
    /\ \E j \in (i + 1)..Len(document) :
           document[j].kind = "FragmentDefinition" /\ document[j].name = document[i].name

Redefined(document) == \E i \in 1..Len(document) : DefinedAgain(document, i)

\* The document without the fragment definitions that are defined again.
RECURSIVE LastDefinitionsFrom(_, _)
LastDefinitionsFrom(document, i) ==
    IF i > Len(document) THEN <<>>
    ELSE (IF DefinedAgain(document, i) THEN <<>> ELSE <<document[i]>>)
             \o LastDefinitionsFrom(document, i + 1)

LastDefinitions(document) == LastDefinitionsFrom(document, 1)

(***************************************************************************)
(* C25.  When a document defines a fragment name more than once, the       *)
(* fragment map holds the last definition in document order, and every     *)
(* spread of the name, before or after that definition in the text,        *)
(* expands to its selections: the result is that of the document with the  *)
(* last definitions only.                                                  *)
(***************************************************************************)
C25_LastFragmentDefinitionWins ==
    (Called(result) /\ Redefined(text)) =>
        /\ \A i \in 1..Len(text) :
               (text[i].kind = "FragmentDefinition" /\ ~DefinedAgain(text, i)) =>
                   PropertyGet(buildFragmentMap(parse(text)), text[i].name) = parse(text)[i]
        /\ result = inlineRelayQueryFromString(LastDefinitions(text))

\* The operation spreads A before both definitions of A, and has the
\* selections of the second.
C25_Witness ==
    /\ text = << OperationDefinition("Q", <<FragmentSpread("A")>>),
                 FragmentDefinition("A", "T", <<Field("id", <<>>, <<>>)>>),
                 FragmentDefinition("B", "T", <<Field("x", <<>>, <<>>), FragmentSpread("A")>>),
                 FragmentDefinition("A", "T",
                     <<Field("account", <<>>, <<Field("x", <<>>, <<>>)>>)>>) >>
    /\ result = Success(<< OperationDefinition("Q",
                     <<Field("account", <<>>, <<Field("x", <<>>, <<>>)>>)>>) >>)

\* The first of the expanded siblings that has the given key.
FirstWithKey(expanded, key) ==
    expanded[CHOOSE i \in 1..Len(expanded) :
                 /\ MergeKey(expanded[i]) = key
                 /\ \A j \in 1..(i - 1) : MergeKey(expanded[j]) # key]

\* Every entry of the output is the first occurrence of its key but for
\* its nested selections, the merge of the nested lists of all the
\* occurrences in their order, whose entries are so in turn.
RECURSIVE FirstOccurrenceKept(_, _, _)
FirstOccurrenceKept(document, output, expanded) ==
    \A i \in 1..Len(output) :
        LET first == FirstWithKey(expanded, MergeKey(output[i]))
            nested == NestedOf(document, expanded, MergeKey(output[i]))
        IN /\ \E j \in 1..Len(expanded) : MergeKey(expanded[j]) = MergeKey(output[i])
           /\ output[i] = [first EXCEPT !.hasSel = output[i].hasSel,
                                        !.selections = output[i].selections]
           /\ output[i].hasSel = (nested # <<>> \/ first.hasSel)
           /\ KeysOf(output[i].selections) = FirstOccurrences(KeysOf(nested))
           /\ FirstOccurrenceKept(document, output[i].selections, nested)

(***************************************************************************)
(* C26.  When selections with the same merge key are merged, the entry of  *)
(* the result keeps the name, alias, arguments and type condition of the   *)
(* first occurrence; only its nested selection set changes, to the         *)
(* recursive merge of the nested lists in occurrence order.                *)
(***************************************************************************)
C26_MergedEntryKeepsFirstOccurrence ==
    (result.status = "ok" /\ WellFormed(text)) =>
        LET Kept(out, op) ==
                FirstOccurrenceKept(text, out.selections, Expand(text, op.selections))
        IN ForOperations(result, Kept)

\* f(a: 1, b: 2) { id } and f(b: 2, a: 1) { x id } were merged: the
\* arguments are in the order of the first, the selections those of both.
C26_Witness ==
    /\ result.status = "ok"
    /\ Len(text[1].selections) = 3
    /\ text[1].selections[2].arguments # text[1].selections[3].arguments
    /\ text[1].selections[3].kind = "Field"
    /\ MergeKey(text[1].selections[2]) = MergeKey(text[1].selections[3])
    /\ Len(result.definitions[1].selections) = 2
    /\ result.definitions[1].selections[2] =
           [text[1].selections[2] EXCEPT
               !.selections = <<Field("id", <<>>, <<>>), Field("x", <<>>, <<>>)>>]

\* The selections with every spread, at every level, replaced in its place
\* by the selections of its fragment, and nothing merged or removed.
RECURSIVE ExpandDeep(_, _)
ExpandDeep(document, selections) ==
    LET expanded == Expand(document, selections)
    IN [i \in 1..Len(expanded) |->
           [expanded[i] EXCEPT !.selections = ExpandDeep(document, @)]]

(***************************************************************************)
(* C27.  Merging applies to the siblings of one selection set only.  When  *)
(* no two siblings of any level have the same merge key once the spreads   *)
(* are expanded, the result is the full expansion: a fragment spread at    *)
(* two nesting levels is expanded in full at each, and no selection is     *)
(* removed or merged because an equal one exists at another level.         *)
(***************************************************************************)
C27_MergeAmongSiblingsOnly ==
    (Called(result) /\ WellFormed(text)) =>
        /\ result.status = "ok"
        /\ \A i \in 1..Len(result.definitions) :
               UniqueKeysDeep(ExpandDeep(text, Operations(text)[i].selections)) =>
                   result.definitions[i].selections =
                       ExpandDeep(text, Operations(text)[i].selections)

\* The example of the README: the selections of the fragment are under
\* user and under user.friends.
C27_Witness ==
    /\ text = << OperationDefinition("Q",
                   << Field("user", <<Argument("id", Variable("id"))>>,
                        << FragmentSpread("A"),
                           Field("friends", <<>>, <<FragmentSpread("A")>>) >>) >>),
                 FragmentDefinition("A", "T",
                   << Field("id", <<>>, <<>>), Field("name", <<>>, <<>>),
                      Field("age", <<>>, <<>>) >>) >>
    /\ result = Success(<< OperationDefinition("Q",
                   << Field("user", <<Argument("id", Variable("id"))>>,
                        << Field("id", <<>>, <<>>), Field("name", <<>>, <<>>),
                           Field("age", <<>>, <<>>),
                           Field("friends", <<>>,
                               << Field("id", <<>>, <<>>), Field("name", <<>>, <<>>),
                                  Field("age", <<>>, <<>>) >>) >>) >>) >>)

\* The two lists bind the same argument names to equal values of the same
\* kind (objects up to the order of their fields, lists element by element).
ValueEqual(args1, args2) ==
    /\ Len(args1) = Len(args2)
    /\ \A i \in 1..Len(args1) : \E j \in 1..Len(args2) :
           args1[i].name = args2[j].name /\ SameValue(args1[i].value, args2[j].value)
    /\ \A j \in 1..Len(args2) : \E i \in 1..Len(args1) :
           args1[i].name = args2[j].name /\ SameValue(args1[i].value, args2[j].value)

\* Sibling fields of one response name whose argument lists are not
\* related stay apart: the output holds at least as many fields of a
\* response name as the expanded sibling list holds classes of related
\* argument lists under that name.
ApartUnless(outcome, Related(_, _)) ==
    LET Apart(out, op) ==
            LET expanded == Expand(text, op.selections)
                Named(n) == {i \in 1..Len(expanded) :
                                expanded[i].kind = "Field" /\ ResponseName(expanded[i]) = n}
                FirstOfClass(n) ==
                    {i \in Named(n) :
                        \A j \in Named(n) :
                            j < i => ~Related(expanded[j].arguments, expanded[i].arguments)}
            IN \A k \in 1..Len(expanded) :
                   expanded[k].kind = "Field" =>
                       Len(FieldsNamed(out.selections, ResponseName(expanded[k])))
                           >= Cardinality(FirstOfClass(ResponseName(expanded[k])))
    IN ForOperations(outcome, Apart)

(***************************************************************************)
(* C28.  The canonical argument key is value-equal: two argument lists     *)
(* have the same key only if they bind the same names to equal values of   *)
(* the same kind, so that sibling fields whose arguments differ in value   *)
(* or kind (1 and "1", the enum A and "A", $x and the object literal       *)
(* {type: "variable", name: "x"}, a list in two orders) are not merged.    *)
(***************************************************************************)
C28_ArgumentKeyValueEqual ==
    (result.status = "ok" /\ WellFormed(text)) =>
        /\ LET OnlyEqual(out, op) ==
                   LET expanded == Expand(text, op.selections)
                   IN \A i, j \in 1..Len(expanded) :
                          createArgumentKey(expanded[i].arguments)
                              = createArgumentKey(expanded[j].arguments)
                          => ValueEqual(expanded[i].arguments, expanded[j].arguments)
           IN ForOperations(result, OnlyEqual)
        /\ ApartUnless(result, ValueEqual)

(***************************************************************************)
(* C29.  In every reachable state of the tab store in which at least one   *)
(* tab exists, activeTabId is the id of one of the tabs: after             *)
(* createTabStore, after any sequence of addTab, closeTab, setActiveTab,   *)
(* updateTabTitle and updateTabContent, and after the store is created     *)
(* again from the saved storage.                                           *)
(***************************************************************************)
C29_ActiveTabIdNamesATab == tabs # <<>> => activeTabId \in TabIds

(***************************************************************************)
(* The editor panel, components/EditorPanel.svelte.  A text of the input   *)
(* editor is the document it is parsed to, the empty text the empty        *)
(* document.  panelProps is the content of the panel's tab, which the      *)
(* panel reads as its props and writes through onUpdate; timers are the    *)
(* timeouts pending in the event loop, each with the handle setTimeout     *)
(* returned for it; compiled lists the calls of compileQuery made.         *)
(***************************************************************************)
MaxEdits == 3

ReadmeQuery ==
    << OperationDefinition("UserQuery",
         << Field("user", <<Argument("id", Variable("id"))>>,
              << FragmentSpread("UserFragment"),
                 Field("friends", <<>>, <<FragmentSpread("UserFragment")>>) >>) >>),
       FragmentDefinition("UserFragment", "User",
         << Field("id", <<>>, <<>>), Field("name", <<>>, <<>>), Field("age", <<>>, <<>>) >>) >>

BrokenQuery == << OperationDefinition("Q", <<FragmentSpread("Missing")>>) >>

EditorTexts == {<<>>, ReadmeQuery, BrokenQuery}

\* A clearTimeout that cancels nothing.
clearTimeoutIgnored(pending, handle) == pending

\* clearTimeout(handle): the timeouts left pending.
clearTimeout(pending, handle) == {t \in pending : t.handle # handle}

\* inlineRelayQueryFromString on each text of the editor.
CompiledTexts == [query \in EditorTexts |-> inlineRelayQueryFromString(query)]

\* compileQuery(query): the content of the tab after the call.
compileQuery(current, query) ==
    IF query = <<>>
    THEN [operationText |-> query, optimizedOperationText |-> <<>>]
    ELSE LET compiledText == CompiledTexts[query]
         IN IF compiledText.status = "ok"
            THEN [operationText |-> query, optimizedOperationText |-> compiledText.definitions]
            ELSE current

EditorInit ==
    /\ panel = "created"
    /\ panelProps \in {[operationText |-> t, optimizedOperationText |-> <<>>] : t \in EditorTexts}
    /\ doc = <<>>
    /\ timers = {}
    /\ compilationTimer = 0
    /\ edits = 0
    /\ compiled = <<>>
    /\ InlinerIdle /\ SplitterIdle /\ GrouperIdle /\ TabsIdle

\* onMount: the editors are created, and the text of the tab is compiled
\* when it is not empty.
Mount ==
    /\ panel = "created"
    /\ panel' = "mounted"
    /\ doc' = panelProps.operationText
    /\ IF panelProps.operationText # <<>>
       THEN /\ compiled' = Append(compiled, [edit |-> 0, text |-> panelProps.operationText])
            /\ panelProps' = compileQuery(panelProps, panelProps.operationText)
       ELSE UNCHANGED <<compiled, panelProps>>
    /\ UNCHANGED <<timers, compilationTimer, edits>>
    /\ UNCHANGED <<inlinerVars, splitterVars, grouperVars, tabVars>>

\* The update listener, on a transaction that changes the document
\* (update.docChanged); the text after it may equal the text before.
Edit(newText) ==
    /\ panel = "mounted"
    /\ edits < MaxEdits
    /\ doc' = newText
    /\ panelProps' = [panelProps EXCEPT !.operationText = newText]
    /\ timers' = clearTimeout(timers, compilationTimer)
                     \cup {[handle |-> edits + 1, text |-> newText]}
    /\ compilationTimer' = edits + 1
    /\ edits' = edits + 1
    /\ UNCHANGED <<panel, compiled>>
    /\ UNCHANGED <<inlinerVars, splitterVars, grouperVars, tabVars>>

\* A pending timeout expires: compileQuery(newText).
TimerFires ==
    \E t \in timers :
        /\ timers' = timers \ {t}
        /\ compiled' = Append(compiled, [edit |-> t.handle, text |-> t.text])
        /\ panelProps' = compileQuery(panelProps, t.text)
        /\ UNCHANGED <<panel, doc, compilationTimer, edits>>
        /\ UNCHANGED <<inlinerVars, splitterVars, grouperVars, tabVars>>

\* onDestroy
Destroy ==
    /\ panel = "mounted"
    /\ panel' = "destroyed"
    /\ timers' = IF compilationTimer # 0 THEN clearTimeout(timers, compilationTimer) ELSE timers
    /\ UNCHANGED <<doc, compilationTimer, edits, compiled, panelProps>>
    /\ UNCHANGED <<inlinerVars, splitterVars, grouperVars, tabVars>>

EditorNext ==
    \/ Mount
    \/ \E newText \in EditorTexts : Edit(newText)
    \/ TimerFires
    \/ Destroy

\* A timeout that is not cancelled expires.
EditorSpec == EditorInit /\ [][EditorNext]_vars /\ WF_vars(TimerFires)

(***************************************************************************)
(* C30.  Each change of the document cancels the pending compile timer and *)
(* starts a new one: at most one compile is pending, a superseded text is  *)
(* never compiled, and after the last edit of a burst one compile runs     *)
(* with the text of that edit, and one only; destroying the panel cancels  *)
(* the pending timer, so that nothing is compiled or written to the tab    *)
(* after the panel was destroyed.                                          *)
(***************************************************************************)
OnePending == Cardinality(timers) <= 1

OncePerEdit ==
    \A i, j \in 1..Len(compiled) : i # j => compiled[i].edit # compiled[j].edit

LatestTextOnly ==
    compiled' # compiled =>
        /\ compiled'[Len(compiled')].edit = edits'
        /\ compiled'[Len(compiled')].text = doc'

NothingAfterDestroy ==
    panel = "destroyed" => compiled' = compiled /\ panelProps' = panelProps

LastEditCompiled ==
    \A n \in 1..MaxEdits :
        (edits = n /\ panel = "mounted")
            ~> \/ panel = "destroyed"
               \/ edits > n
               \/ \E i \in 1..Len(compiled) : compiled[i] = [edit |-> n, text |-> doc]

C30_DebouncedCompile ==
    /\ [](OnePending /\ OncePerEdit)
    /\ [][LatestTextOnly /\ NothingAfterDestroy]_vars
    /\ LastEditCompiled

\* In a panel opened on the README query, a burst of two edits whose last
\* left that text in the editor: the text was compiled again, once, for the
\* second edit, and nothing was compiled for the first.
C30_Witness ==
    /\ edits = 2
    /\ doc = ReadmeQuery
    /\ compiled = <<[edit |-> 0, text |-> ReadmeQuery], [edit |-> 2, text |-> ReadmeQuery]>>
    /\ timers = {}
    /\ panelProps.operationText = ReadmeQuery
    /\ panelProps.optimizedOperationText # <<>>

====
